---------------------------- MODULE Spec2Model ----------------------------
(***************************************************************************)
(* Continuum core: the noise filter and message compressor                 *)
(* (continuum-core/src/compression.rs) and the loop detector               *)
(* (continuum-core/src/loop_detection.rs).                                 *)
(*                                                                         *)
(* A Rust String is modelled as the sequence of its characters, each       *)
(* character a one-character TLA+ string; Option<T> as a sequence of       *)
(* length 0 (None) or 1 (Some); a message (role, content) as a pair.       *)
(***************************************************************************)
EXTENDS Integers, Sequences, FiniteSets, TLC

VARIABLES
    pc,          \* position of the caller: which calls have returned
    parts,       \* the pieces the input content was assembled from
    content,     \* argument of NoiseFilter::filter
    filtered,    \* its result, an Option<String>
    refiltered,  \* result of filtering the cleaned text a second time
    cycle,       \* the exchange a runaway session repeats
    reps,        \* how many times it has been appended
    messages,    \* the batch handed to compress_batch / analyze
    compressed,  \* result of MessageCompressor::compress_batch
    detections,  \* result of LoopDetector::analyze
    assistant,   \* the assistant whose session is imported
    today,       \* the day of chrono::Utc::now()
    session_json,    \* per date directory of the session: session.json, if written
    messages_jsonl,  \* per date directory of the session: the lines of messages.jsonl
    marker,          \* whether ~/.continuum-nosave exists
    skip_saving,     \* the running wrapper's skip_saving
    before_session,  \* the running wrapper's before_session
    latest_session,  \* what find_latest_session_file / find_latest_session_id returns
    session_dir,     \* the running wrapper's session_dir, while it asks keep or discard
    user_prompt,     \* run_with_logging: the prompt read from stdin
    session_id,      \* run_with_logging: the session id of the last System event
    session_start_time,  \* run_with_logging: when that event was read
    message_count,   \* run_with_logging: the messages logged by this run
    savings,         \* result of NoiseFilter::token_savings
    original_tokens,    \* argument of MessageCompressor::compression_ratio
    compressed_tokens,  \* argument of MessageCompressor::compression_ratio
    ratio,           \* its result
    detector,        \* the LoopDetector instance that the threads share
    calls            \* per thread: the call it makes on the shared instances

\* the continuum logs of the session
store == <<assistant, today, session_json, messages_jsonl>>

\* the no-save marker and the locals of the interactive wrappers
wrapper == <<marker, skip_saving, before_session, latest_session, session_dir>>

\* the locals of the print-mode wrapper
logging == <<user_prompt, session_id, session_start_time, message_count>>

\* the token estimates
metrics == <<savings, original_tokens, compressed_tokens, ratio>>

\* the instances shared between threads, and the threads' calls
shared == <<detector, calls>>

vars == <<pc, parts, content, filtered, refiltered, cycle, reps, messages, compressed,
          detections, store, wrapper, logging, metrics, shared>>

---------------------------------------------------------------------------
(* Strings                                                                 *)

None == <<>>
Some(x) == <<x>>

Whitespace == {" ", "\n", "\t"}

\* UTF-8 width of a character: String::len counts bytes.
Utf8Len(c) == IF c = "é" THEN 2 ELSE 1

\* String::len: the sum of the characters' widths
ByteLen(s) ==
    LET wide(w) == Cardinality({i \in 1..Len(s) : Utf8Len(s[i]) = w})
    IN  wide(1) + 2 * wide(2) + 3 * wide(3) + 4 * wide(4)

Min(a, b) == IF a <= b THEN a ELSE b

Least(S) == CHOOSE x \in S : \A y \in S : x <= y
Greatest(S) == CHOOSE x \in S : \A y \in S : y <= x

RECURSIVE Flatten(_)
Flatten(ss) == IF ss = <<>> THEN <<>> ELSE Head(ss) \o Flatten(Tail(ss))

\* (?i): ASCII case folding of the characters that occur in the patterns.
LowerOf ==
    ("A" :> "a") @@ ("B" :> "b") @@ ("C" :> "c") @@ ("D" :> "d") @@ ("E" :> "e") @@ ("F" :> "f") @@ ("G" :> "g") @@ ("H" :> "h") @@ ("I" :> "i") @@
    ("J" :> "j") @@ ("K" :> "k") @@ ("L" :> "l") @@ ("M" :> "m") @@ ("N" :> "n") @@ ("O" :> "o") @@ ("P" :> "p") @@ ("Q" :> "q") @@ ("R" :> "r") @@
    ("S" :> "s") @@ ("T" :> "t") @@ ("U" :> "u") @@ ("V" :> "v") @@ ("W" :> "w") @@ ("X" :> "x") @@ ("Y" :> "y") @@ ("Z" :> "z")

ToLower(s) == [i \in 1..Len(s) |-> IF s[i] \in DOMAIN LowerOf THEN LowerOf[s[i]] ELSE s[i]]

OccursAt(s, pat, i) ==
    /\ i + Len(pat) - 1 <= Len(s)
    /\ s[i] = pat[1]
    /\ SubSeq(s, i, i + Len(pat) - 1) = pat

\* Index of the leftmost occurrence of pat in s at or after position from, or 0.
FindFrom(s, pat, from) ==
    LET hits == {i \in from..(Len(s) - Len(pat) + 1) : OccursAt(s, pat, i)}
    IN  IF hits = {} THEN 0 ELSE Least(hits)

StartsWith(s, pat) == Len(pat) <= Len(s) /\ SubSeq(s, 1, Len(pat)) = pat

Drop(s, n) == SubSeq(s, n + 1, Len(s))

\* s without its longest prefix of characters of class
DropWhile(s, class) ==
    LET other == {i \in 1..Len(s) : s[i] \notin class}
    IN  IF other = {} THEN <<>> ELSE SubSeq(s, Least(other), Len(s))

\* str::trim_start
TrimStart(s) == DropWhile(s, Whitespace)

\* str::trim_end
TrimEnd(s) ==
    LET other == {i \in 1..Len(s) : s[i] \notin Whitespace}
    IN  IF other = {} THEN <<>> ELSE SubSeq(s, 1, Greatest(other))

\* str::trim
Trim(s) == TrimEnd(TrimStart(s))

---------------------------------------------------------------------------
(* NoiseFilter::new: the compiled patterns                                 *)

\* ^(please|thank you|...|good)\s*[.!]?\s*$ : the alternatives
StandalonePleasantries ==
    { <<"p", "l", "e", "a", "s", "e">>,
      <<"t", "h", "a", "n", "k", " ", "y", "o", "u">>,
      <<"t", "h", "a", "n", "k", "s">>,
      <<"s", "u", "r", "e">>,
      <<"o", "k">>,
      <<"o", "k", "a", "y">>,
      <<"g", "o", "t", " ", "i", "t">>,
      <<"u", "n", "d", "e", "r", "s", "t", "o", "o", "d">>,
      <<"g", "r", "e", "a", "t">>,
      <<"a", "w", "e", "s", "o", "m", "e">>,
      <<"p", "e", "r", "f", "e", "c", "t">>,
      <<"e", "x", "c", "e", "l", "l", "e", "n", "t">>,
      <<"n", "i", "c", "e">>,
      <<"g", "o", "o", "d">> }

\* ^(this is (all )?(very )?(great|...)|how (cool|...)|very (cool|...))[.!]*\s*$
ThisIs == <<"t", "h", "i", "s", " ", "i", "s", " ">>
AllWord == <<"a", "l", "l", " ">>
VeryWord == <<"v", "e", "r", "y", " ">>
HowWord == <<"h", "o", "w", " ">>
ThisIsAdjectives ==
    { <<"g", "r", "e", "a", "t">>,
      <<"a", "m", "a", "z", "i", "n", "g">>,
      <<"e", "x", "c", "i", "t", "i", "n", "g">>,
      <<"w", "o", "n", "d", "e", "r", "f", "u", "l">>,
      <<"f", "a", "n", "t", "a", "s", "t", "i", "c">>,
      <<"p", "e", "r", "f", "e", "c", "t">>,
      <<"e", "x", "c", "e", "l", "l", "e", "n", "t">> }
HowAdjectives ==
    { <<"c", "o", "o", "l">>,
      <<"n", "e", "a", "t">>,
      <<"n", "i", "c", "e">>,
      <<"g", "r", "e", "a", "t">> }
VeryAdjectives ==
    { <<"c", "o", "o", "l">>,
      <<"n", "i", "c", "e">>,
      <<"e", "x", "c", "i", "t", "i", "n", "g">>,
      <<"i", "n", "t", "e", "r", "e", "s", "t", "i", "n", "g">> }

\* ^(if you (don't mind|could|would like)|would you like me to|let me|i'll|i will|i can)
PolitePrefixes ==
    { <<"i", "f", " ", "y", "o", "u", " ", "d", "o", "n", "'", "t", " ", "m", "i", "n", "d">>,
      <<"i", "f", " ", "y", "o", "u", " ", "c", "o", "u", "l", "d">>,
      <<"i", "f", " ", "y", "o", "u", " ", "w", "o", "u", "l", "d", " ", "l", "i", "k", "e">>,
      <<"w", "o", "u", "l", "d", " ", "y", "o", "u", " ", "l", "i", "k", "e", " ", "m", "e",
    " ", "t", "o">>,
      <<"l", "e", "t", " ", "m", "e">>,
      <<"i", "'", "l", "l">>,
      <<"i", " ", "w", "i", "l", "l">>,
      <<"i", " ", "c", "a", "n">> }

\* (let me know if you (need|want|would like)|is there anything else|anything else i can help).*$
PoliteSuffixes ==
    { <<"l", "e", "t", " ", "m", "e", " ", "k", "n", "o", "w", " ", "i", "f", " ", "y", "o",
    "u", " ", "n", "e", "e", "d">>,
      <<"l", "e", "t", " ", "m", "e", " ", "k", "n", "o", "w", " ", "i", "f", " ", "y", "o",
    "u", " ", "w", "a", "n", "t">>,
      <<"l", "e", "t", " ", "m", "e", " ", "k", "n", "o", "w", " ", "i", "f", " ", "y", "o",
    "u", " ", "w", "o", "u", "l", "d", " ", "l", "i", "k", "e">>,
      <<"i", "s", " ", "t", "h", "e", "r", "e", " ", "a", "n", "y", "t", "h", "i", "n", "g",
    " ", "e", "l", "s", "e">>,
      <<"a", "n", "y", "t", "h", "i", "n", "g", " ", "e", "l", "s", "e", " ", "i", " ", "c",
    "a", "n", " ", "h", "e", "l", "p">> }

\* ^(i understand|i see|i got it|understood|noted|will do|on it|done)\s*[.!]?\s*$
AcknowledgmentPhrases ==
    { <<"i", " ", "u", "n", "d", "e", "r", "s", "t", "a", "n", "d">>,
      <<"i", " ", "s", "e", "e">>,
      <<"i", " ", "g", "o", "t", " ", "i", "t">>,
      <<"u", "n", "d", "e", "r", "s", "t", "o", "o", "d">>,
      <<"n", "o", "t", "e", "d">>,
      <<"w", "i", "l", "l", " ", "d", "o">>,
      <<"o", "n", " ", "i", "t">>,
      <<"d", "o", "n", "e">> }

\* <environment_context>[\s\S]*?</environment_context>
EnvOpen == <<"<", "e", "n", "v", "i", "r", "o", "n", "m", "e", "n", "t", "_", "c", "o", "n",
    "t", "e", "x", "t", ">">>
EnvClose == <<"<", "/", "e", "n", "v", "i", "r", "o", "n", "m", "e", "n", "t", "_", "c", "o",
    "n", "t", "e", "x", "t", ">">>
\* <system-reminder>[\s\S]*?</system-reminder>
ReminderOpen == <<"<", "s", "y", "s", "t", "e", "m", "-", "r", "e", "m", "i", "n", "d", "e",
    "r", ">">>
ReminderClose == <<"<", "/", "s", "y", "s", "t", "e", "m", "-", "r", "e", "m", "i", "n", "d",
    "e", "r", ">">>
\* <system>Tool ran without output or errors</system>
ToolSentinel == <<"<", "s", "y", "s", "t", "e", "m", ">", "T", "o", "o", "l", " ", "r", "a",
    "n", " ", "w", "i", "t", "h", "o", "u", "t", " ", "o", "u", "t", "p", "u", "t", " ", "o",
    "r", " ", "e", "r", "r", "o", "r", "s", "<", "/", "s", "y", "s", "t", "e", "m", ">">>

---------------------------------------------------------------------------
(* NoiseFilter::filter                                                     *)

\* Regex::replace_all for  open[\s\S]*?close : leftmost match, shortest body,
\* then the scan resumes after the match; the text is scanned once.
RECURSIVE StripDelimited(_, _, _)
StripDelimited(s, open, close) ==
    LET o == FindFrom(s, open, 1)
        c == IF o = 0 THEN 0 ELSE FindFrom(s, close, o + Len(open))
    IN  IF c = 0 THEN s
        ELSE SubSeq(s, 1, o - 1) \o StripDelimited(Drop(s, c + Len(close) - 1), open, close)

\* Regex::replace_all for a literal pattern.
RECURSIVE StripLiteral(_, _)
StripLiteral(s, lit) ==
    LET o == FindFrom(s, lit, 1)
    IN  IF o = 0 THEN s
        ELSE SubSeq(s, 1, o - 1) \o StripLiteral(Drop(s, o + Len(lit) - 1), lit)

\* for pattern in &self.boilerplate { cleaned = pattern.replace_all(&cleaned, "") }
StripBoilerplate(s) ==
    StripLiteral(
        StripDelimited(StripDelimited(s, EnvOpen, EnvClose), ReminderOpen, ReminderClose),
        ToolSentinel)

\* \s*[.!]?\s*$
OptionalPunctToEnd(rest) ==
    LET r == TrimStart(rest)
    IN  TrimStart(IF r # <<>> /\ Head(r) \in {".", "!"} THEN Tail(r) ELSE r) = <<>>

\* Faulty variant: the pattern is left open at the end, ^(please|...|good)
IsStandalonePleasantry_unanchored(s) ==
    \E p \in StandalonePleasantries : StartsWith(ToLower(s), p)

\* pleasantries[0].is_match
IsStandalonePleasantry(s) ==
    \E p \in StandalonePleasantries :
        StartsWith(ToLower(s), p) /\ OptionalPunctToEnd(Drop(s, Len(p)))

EnthusiasmPhrases ==
    { ThisIs \o a \o v \o x : a \in {<<>>, AllWord}, v \in {<<>>, VeryWord},
                              x \in ThisIsAdjectives }
    \cup { HowWord \o x : x \in HowAdjectives }
    \cup { VeryWord \o x : x \in VeryAdjectives }

\* pleasantries[1].is_match; the tail is [.!]*\s*$
IsEnthusiasm(s) ==
    \E p \in EnthusiasmPhrases :
        StartsWith(ToLower(s), p) /\ TrimStart(DropWhile(Drop(s, Len(p)), {".", "!"})) = <<>>

\* pleasantries[2].is_match: anchored at the start only
HasPolitePrefix(s) == \E p \in PolitePrefixes : StartsWith(ToLower(s), p)

\* pleasantries[3].is_match: not anchored at the start; .*$ runs to the end of
\* the text and . matches every character but the line feed
HasPoliteSuffix(s) ==
    \E p \in PoliteSuffixes : \E i \in 1..Len(s) :
        /\ OccursAt(ToLower(s), p, i)
        /\ \A j \in (i + Len(p))..Len(s) : s[j] # "\n"

\* acknowledgments[0].is_match
IsAcknowledgment(s) ==
    \E p \in AcknowledgmentPhrases :
        StartsWith(ToLower(s), p) /\ OptionalPunctToEnd(Drop(s, Len(p)))

\* Faulty variant: the noise tests look at the content as it came in, and the
\* boilerplate is removed only afterwards
filter_tests_first(c) ==
    LET raw == Trim(c)
        cleaned == Trim(StripBoilerplate(c))
    IN  IF \/ IsStandalonePleasantry(raw) \/ IsEnthusiasm(raw)
           \/ HasPolitePrefix(raw) \/ HasPoliteSuffix(raw)
        THEN None
        ELSE IF IsAcknowledgment(raw) THEN None
        ELSE IF cleaned = <<>> \/ ByteLen(cleaned) < 3 THEN None
        ELSE Some(cleaned)

\* NoiseFilter::filter
filter(c) ==
    LET cleaned == Trim(StripBoilerplate(c))
    IN  IF \/ IsStandalonePleasantry(cleaned)
           \/ IsEnthusiasm(cleaned)
           \/ HasPolitePrefix(cleaned)
           \/ HasPoliteSuffix(cleaned)
        THEN None
        ELSE IF IsAcknowledgment(cleaned) THEN None
        ELSE IF cleaned = <<>> \/ ByteLen(cleaned) < 3 THEN None
        ELSE Some(cleaned)

---------------------------------------------------------------------------
(* MessageCompressor                                                       *)

\* messages.iter().filter_map(|(role, content)| filter(content).map(|cleaned| (role, cleaned)))
RECURSIVE FilterMap(_, _)
FilterMap(msgs, i) ==
    IF i > Len(msgs) THEN <<>>
    ELSE LET cleaned == filter(msgs[i][2])
         IN  (IF cleaned = None THEN <<>> ELSE << <<msgs[i][1], cleaned[1]>> >>)
                 \o FilterMap(msgs, i + 1)

\* Faulty variant: the survivors are collected back to front
compress_batch_reversed(msgs) ==
    LET kept == FilterMap(msgs, 1)
    IN  [i \in 1..Len(kept) |-> kept[Len(kept) + 1 - i]]

\* Faulty variant: a survivor equal to the survivor before it is left out
compress_batch_dedup(msgs) ==
    LET kept == FilterMap(msgs, 1)
        fresh == SelectSeq([i \in 1..Len(kept) |-> i],
                           LAMBDA i : i = 1 \/ kept[i - 1] # kept[i])
    IN  [n \in 1..Len(fresh) |-> kept[fresh[n]]]

\* Faulty variant: each survivor's content is prefixed with its role
compress_batch_labelled(msgs) ==
    LET kept == FilterMap(msgs, 1)
    IN  [i \in 1..Len(kept) |-> <<kept[i][1], kept[i][1] \o <<":", " ">> \o kept[i][2]>>]

\* MessageCompressor::compress_batch
compress_batch(msgs) == FilterMap(msgs, 1)

---------------------------------------------------------------------------
(* LoopDetector                                                            *)

\* LoopDetector::new
max_messages_warning == 100
max_messages_critical == 200
min_repetitions == 10
max_pattern_size == 10

\* impl Hash for str: the bytes of the string, then the byte 0xFF.
HashStr(s) == Append(s, "0xFF")

\* DefaultHasher::finish. The 64-bit SipHash value is modelled by the stream it
\* digests: equal streams give equal hashes, and distinct streams are taken to
\* give distinct hashes.
Finish(stream) == [written |-> stream]

\* str::split_whitespace().collect::<Vec<_>>()
RECURSIVE SplitWhitespace(_)
SplitWhitespace(s) ==
    LET t == TrimStart(s)
        gaps == {i \in 1..Len(t) : t[i] \in Whitespace}
        n == IF gaps = {} THEN Len(t) ELSE Least(gaps) - 1
    IN  IF t = <<>> THEN <<>>
        ELSE <<SubSeq(t, 1, n)>> \o SplitWhitespace(Drop(t, n))

\* [&str]::join(" ")
RECURSIVE Join(_)
Join(words) ==
    IF words = <<>> THEN <<>>
    ELSE IF Len(words) = 1 THEN words[1]
    ELSE words[1] \o <<" ">> \o Join(Tail(words))

\* Faulty variant: the content is hashed as it is, whitespace included
hash_content_raw(c) == Finish(HashStr(c))

\* LoopDetector::hash_content
hash_content(c) == Finish(HashStr(Join(SplitWhitespace(c))))

\* Faulty variant: content.hash(&mut hasher) is left out
hash_message_role_only(m) == Finish(HashStr(m[1]))

\* Faulty variant: the content is normalized as in hash_content before it is hashed
hash_message_normalized(m) == Finish(HashStr(m[1]) \o HashStr(Join(SplitWhitespace(m[2]))))

\* role.hash(&mut hasher); content.hash(&mut hasher); hasher.finish()
hash_message(m) == Finish(HashStr(m[1]) \o HashStr(m[2]))

\* Faulty variant: or_insert(1), so that every count starts one too high
CountEntries_from_one(keys) ==
    [k \in {keys[i] : i \in 1..Len(keys)} |->
        Cardinality({i \in 1..Len(keys) : keys[i] = k}) + 1]

\* for key in keys { *counts.entry(key).or_insert(0) += 1 }: the map the loop
\* leaves, from each key met to the number of times it was met
CountEntries(keys) ==
    [k \in {keys[i] : i \in 1..Len(keys)} |->
        Cardinality({i \in 1..Len(keys) : keys[i] = k})]

\* counts.iter().max_by_key(|(_, &count)| count): None on an empty map
MaxCount(counts) ==
    IF DOMAIN counts = {} THEN None
    ELSE Some(Greatest({counts[k] : k \in DOMAIN counts}))

Detection(sev, text, args, count, size) ==
    [severity |-> sev, message |-> <<text>> \o args,
     repetition_count |-> count, pattern_size |-> size]

\* Faulty variant: the Critical threshold is compared with > instead of >=
ContentDetection_strict(max) ==
    IF max = None THEN None
    ELSE IF max[1] > min_repetitions * 2
    THEN Some(Detection("Critical", "Identical content repeated {} times (threshold: {})",
                        <<max[1], min_repetitions * 2>>, max[1], 1))
    ELSE IF max[1] >= min_repetitions
    THEN Some(Detection("Warning", "Content repeated {} times (threshold: {})",
                        <<max[1], min_repetitions>>, max[1], 1))
    ELSE None

\* detect_content_repetition, from "Find the most repeated content" on:
\* max is the Option that max_by_key returns
ContentDetection(max) ==
    IF max = None THEN None
    ELSE IF max[1] >= min_repetitions * 2
    THEN Some(Detection("Critical", "Identical content repeated {} times (threshold: {})",
                        <<max[1], min_repetitions * 2>>, max[1], 1))
    ELSE IF max[1] >= min_repetitions
    THEN Some(Detection("Warning", "Content repeated {} times (threshold: {})",
                        <<max[1], min_repetitions>>, max[1], 1))
    ELSE None

\* Faulty variant: the role is hashed along with the normalized content
detect_content_repetition_per_role(msgs) ==
    ContentDetection(MaxCount(CountEntries(
        [i \in 1..Len(msgs) |-> Finish(HashStr(msgs[i][1]) \o HashStr(Join(SplitWhitespace(msgs[i][2]))))])))

\* Faulty variant: only the user's messages are counted
detect_content_repetition_user_only(msgs) ==
    LET asked == SelectSeq(msgs, LAMBDA m : m[1] = <<"u", "s", "e", "r">>)
    IN  ContentDetection(MaxCount(CountEntries(
            [i \in 1..Len(asked) |-> hash_content(asked[i][2])])))

\* LoopDetector::detect_content_repetition
detect_content_repetition(msgs) ==
    ContentDetection(MaxCount(CountEntries([i \in 1..Len(msgs) |-> hash_content(msgs[i][2])])))

\* messages.windows(pattern_size) mapped to Vec<u64>
WindowHashes(msgs, pattern_size) ==
    LET hashes == [i \in 1..Len(msgs) |-> hash_message(msgs[i])]
    IN  [i \in 1..(Len(msgs) - pattern_size + 1) |-> SubSeq(hashes, i, i + pattern_size - 1)]

\* Faulty variant: the Warning threshold is compared with > instead of >=
PatternDetection_strict(pattern_size, max) ==
    IF max = None THEN None
    ELSE IF max[1] >= min_repetitions * 2
    THEN Some(Detection("Critical",
                  "Message pattern of {} messages repeated {} times (threshold: {})",
                  <<pattern_size, max[1], min_repetitions * 2>>, max[1], pattern_size))
    ELSE IF max[1] > min_repetitions
    THEN Some(Detection("Warning",
                  "Message pattern of {} messages repeated {} times (threshold: {})",
                  <<pattern_size, max[1], min_repetitions>>, max[1], pattern_size))
    ELSE None

\* find_repeating_pattern, from "Find the most repeated pattern" on
PatternDetection(pattern_size, max) ==
    IF max = None THEN None
    ELSE IF max[1] >= min_repetitions * 2
    THEN Some(Detection("Critical",
                  "Message pattern of {} messages repeated {} times (threshold: {})",
                  <<pattern_size, max[1], min_repetitions * 2>>, max[1], pattern_size))
    ELSE IF max[1] >= min_repetitions
    THEN Some(Detection("Warning",
                  "Message pattern of {} messages repeated {} times (threshold: {})",
                  <<pattern_size, max[1], min_repetitions>>, max[1], pattern_size))
    ELSE None

\* Faulty variant: messages.chunks_exact(pattern_size) instead of messages.windows(pattern_size)
find_repeating_pattern_chunks(msgs, pattern_size) ==
    IF Len(msgs) < pattern_size * min_repetitions THEN None
    ELSE PatternDetection(pattern_size,
             MaxCount(CountEntries(
                 [i \in 1..(Len(msgs) \div pattern_size) |->
                     [j \in 1..pattern_size |-> hash_message(msgs[(i - 1) * pattern_size + j])]])))

\* Faulty variant: the early return on a batch shorter than pattern_size * min_repetitions
\* is left out
find_repeating_pattern_unguarded(msgs, pattern_size) ==
    PatternDetection(pattern_size, MaxCount(CountEntries(WindowHashes(msgs, pattern_size))))

\* LoopDetector::find_repeating_pattern
find_repeating_pattern(msgs, pattern_size) ==
    IF Len(msgs) < pattern_size * min_repetitions THEN None
    ELSE PatternDetection(pattern_size,
                          MaxCount(CountEntries(WindowHashes(msgs, pattern_size))))

\* for pattern_size in 2..=last { if let Some(d) = find_repeating_pattern(..) { return Some(d) } }
RECURSIVE ScanPatternSizes(_, _, _)
ScanPatternSizes(msgs, pattern_size, last) ==
    IF pattern_size > last THEN None
    ELSE LET d == find_repeating_pattern(msgs, pattern_size)
         IN  IF d # None THEN d ELSE ScanPatternSizes(msgs, pattern_size + 1, last)

\* the same scan over (2..=last).rev()
RECURSIVE ScanPatternSizesDown(_, _)
ScanPatternSizesDown(msgs, pattern_size) ==
    IF pattern_size < 2 THEN None
    ELSE LET d == find_repeating_pattern(msgs, pattern_size)
         IN  IF d # None THEN d ELSE ScanPatternSizesDown(msgs, pattern_size - 1)

\* Faulty variant: the largest pattern size is tried first
detect_message_pattern_loops_descending(msgs) ==
    ScanPatternSizesDown(msgs, Min(max_pattern_size, Len(msgs) \div 4))

\* Faulty variant: the scan starts at three-message patterns
detect_message_pattern_loops_from_three(msgs) ==
    ScanPatternSizes(msgs, 3, Min(max_pattern_size, Len(msgs) \div 4))

\* LoopDetector::detect_message_pattern_loops
detect_message_pattern_loops(msgs) ==
    ScanPatternSizes(msgs, 2, Min(max_pattern_size, Len(msgs) \div 4))

\* Faulty variant: the thresholds are compared with > instead of >=
detect_message_count_exclusive(msgs) ==
    IF Len(msgs) > max_messages_critical
    THEN Some(Detection("Critical", "Extremely high message count: {} messages (threshold: {})",
                        <<Len(msgs), max_messages_critical>>, 0, 0))
    ELSE IF Len(msgs) > max_messages_warning
    THEN Some(Detection("Warning", "High message count: {} messages (threshold: {})",
                        <<Len(msgs), max_messages_warning>>, 0, 0))
    ELSE None

\* Check 1 of LoopDetector::analyze: absolute message count
detect_message_count(msgs) ==
    IF Len(msgs) >= max_messages_critical
    THEN Some(Detection("Critical", "Extremely high message count: {} messages (threshold: {})",
                        <<Len(msgs), max_messages_critical>>, 0, 0))
    ELSE IF Len(msgs) >= max_messages_warning
    THEN Some(Detection("Warning", "High message count: {} messages (threshold: {})",
                        <<Len(msgs), max_messages_warning>>, 0, 0))
    ELSE None

\* Faulty variant: analyze returns as soon as one check has a finding
analyze_short_circuit(msgs) ==
    IF detect_message_count(msgs) # None THEN detect_message_count(msgs)
    ELSE IF detect_content_repetition(msgs) # None THEN detect_content_repetition(msgs)
    ELSE detect_message_pattern_loops(msgs)

\* LoopDetector::analyze: an Option pushed onto the Vec adds zero or one element
analyze(msgs) ==
    detect_message_count(msgs)
        \o detect_content_repetition(msgs)
        \o detect_message_pattern_loops(msgs)

---------------------------------------------------------------------------
(* PlainTextWriter: the files of one session                               *)

MaxDays == 2

\* the days on which an import may run; the first is the day the session began
Dates == 1..MaxDays

\* nothing has been written for the session
EmptyStore ==
    /\ assistant = "codex"
    /\ today = 1
    /\ session_json = [d \in Dates |-> None]
    /\ messages_jsonl = [d \in Dates |-> <<>>]

\* no wrapper is running and no marker has been left
NoWrapper ==
    /\ marker = FALSE
    /\ skip_saving = FALSE
    /\ before_session = None
    /\ latest_session = None
    /\ session_dir = None
    /\ user_prompt = None
    /\ session_id = None
    /\ session_start_time = None
    /\ message_count = 0

\* nothing has been estimated
NoMetrics ==
    /\ savings = 0
    /\ original_tokens = 0
    /\ compressed_tokens = 0
    /\ ratio = None

\* LoopDetector::new, and no thread at work
NoCalls ==
    /\ detector = [max_messages_warning |-> max_messages_warning,
                   max_messages_critical |-> max_messages_critical,
                   min_repetitions |-> min_repetitions,
                   max_pattern_size |-> max_pattern_size]
    /\ calls = <<>>

---------------------------------------------------------------------------
(* Inputs of the filter: contents assembled from a vocabulary of pieces    *)

Please == <<"p", "l", "e", "a", "s", "e">>
LetMe == <<"L", "e", "t", " ", "m", "e">>
AnythingElse == <<"i", "s", " ", "t", "h", "e", "r", "e", " ", "a", "n", "y", "t", "h", "i",
    "n", "g", " ", "e", "l", "s", "e">>
Done == <<"d", "o", "n", "e">>
Space == <<" ">>
LineFeed == <<"\n">>
Period == <<".">>
Fix == <<"f", "i", "x">>
Accent == <<"é">>
SentinelHead == <<"<", "s", "y", "s", "t", "e", "m", ">", "T", "o", "o", "l", " ", "r", "a",
    "n", " ">>
SentinelTail == <<"w", "i", "t", "h", "o", "u", "t", " ", "o", "u", "t", "p", "u", "t", " ",
    "o", "r", " ", "e", "r", "r", "o", "r", "s", "<", "/", "s", "y", "s", "t", "e", "m", ">">>

\* the role tags the adapters produce
RoleUser == <<"u", "s", "e", "r">>
RoleAssistant == <<"a", "s", "s", "i", "s", "t", "a", "n", "t">>
RoleSystem == <<"s", "y", "s", "t", "e", "m">>
RoleTool == <<"t", "o", "o", "l">>

Vocabulary ==
    { Please, LetMe, AnythingElse, Done, Space, LineFeed, Period, Fix, Accent,
      EnvOpen, EnvClose, ReminderOpen, ReminderClose,
      ToolSentinel, SentinelHead, SentinelTail }

MaxParts == 3

RECURSIVE SeqsUpTo(_, _)
SeqsUpTo(S, n) ==
    IF n = 0 THEN {<<>>}
    ELSE LET shorter == SeqsUpTo(S, n - 1)
         IN  shorter \cup { Append(q, x) : q \in shorter, x \in S }

InitFilter ==
    /\ pc = "ready"
    /\ parts \in SeqsUpTo(Vocabulary, MaxParts)
    /\ content = Flatten(parts)
    /\ filtered = None
    /\ refiltered = None
    /\ cycle = <<>>
    /\ reps = 0
    /\ messages = <<>>
    /\ compressed = <<>>
    /\ detections = <<>>
    /\ EmptyStore
    /\ NoWrapper
    /\ NoMetrics
    /\ NoCalls

\* let cleaned = filter.filter(&content)
Filter ==
    /\ pc = "ready"
    /\ filtered' = filter(content)
    /\ pc' = "filtered"
    /\ UNCHANGED <<store, wrapper, logging, metrics, parts, content, refiltered, cycle, reps, messages, compressed, detections, shared>>

\* a later pass over stored text: filter.filter(&cleaned)
Refilter ==
    /\ pc = "filtered"
    /\ filtered # None
    /\ refiltered' = filter(filtered[1])
    /\ pc' = "refiltered"
    /\ UNCHANGED <<store, wrapper, logging, metrics, parts, content, filtered, cycle, reps, messages, compressed, detections, shared>>

NextFilter == Filter \/ Refilter

SpecFilter == InitFilter /\ [][NextFilter]_vars

---------------------------------------------------------------------------
(* Contents in which wrapper blocks stand between pieces of text            *)

PleaseHead == <<"p", "l", "e">>
PleaseTail == <<"a", "s", "e">>

\* a block of each kind the adapters' transcripts carry
EnvBlock == Flatten(<<EnvOpen, LineFeed, Fix, LineFeed, EnvClose>>)
ReminderBlock == Flatten(<<ReminderOpen, Please, ReminderClose>>)
WrapperBlocks == {EnvBlock, ReminderBlock, ToolSentinel}

TextPieces == {Please, PleaseHead, PleaseTail, LetMe, Fix, Space, LineFeed, Period}

MaxItems == 3

IsTextPiece(item) == item \notin WrapperBlocks

\* the text of a content without the wrapper blocks put into it
TextOf(items) == Flatten(SelectSeq(items, IsTextPiece))

InitWrapped ==
    /\ pc = "ready"
    /\ parts \in SeqsUpTo(TextPieces \cup WrapperBlocks, MaxItems)
    /\ content = Flatten(parts)
    /\ filtered = None
    /\ refiltered = None
    /\ cycle = <<>>
    /\ reps = 0
    /\ messages = <<>>
    /\ compressed = <<>>
    /\ detections = <<>>
    /\ EmptyStore
    /\ NoWrapper
    /\ NoMetrics
    /\ NoCalls

SpecWrapped == InitWrapped /\ [][NextFilter]_vars

---------------------------------------------------------------------------
(* Contents that open with a phrase of the two standalone lists            *)

Bang == <<"!">>

\* the letter cases a phrase is typed in
ToUpper(s) ==
    [i \in 1..Len(s) |->
        IF \E u \in DOMAIN LowerOf : LowerOf[u] = s[i]
        THEN CHOOSE u \in DOMAIN LowerOf : LowerOf[u] = s[i]
        ELSE s[i]]
Capitalize(s) == <<ToUpper(s)[1]>> \o Tail(s)
LetterCases(s) == {s, ToUpper(s), Capitalize(s)}

MaxWords == 2

\* the words that follow the phrase, each after a space
FurtherWords ==
    { Flatten([i \in 1..Len(ws) |-> Space \o ws[i]]) : ws \in SeqsUpTo({Fix, Done}, MaxWords) }

InitPhrase ==
    /\ pc = "ready"
    /\ \E p \in StandalonePleasantries \cup AcknowledgmentPhrases :
       \E typed \in LetterCases(p), lead \in {<<>>, Space}, gap \in {<<>>, Space},
          punct \in {<<>>, Period, Bang}, trail \in {<<>>, LineFeed}, more \in FurtherWords :
            parts = <<lead, typed, gap, punct, trail, more>>
    /\ content = Flatten(parts)
    /\ filtered = None
    /\ refiltered = None
    /\ cycle = <<>>
    /\ reps = 0
    /\ messages = <<>>
    /\ compressed = <<>>
    /\ detections = <<>>
    /\ EmptyStore
    /\ NoWrapper
    /\ NoMetrics
    /\ NoCalls

SpecPhrase == InitPhrase /\ [][NextFilter]_vars

---------------------------------------------------------------------------
(* Batches handed to the compressor                                        *)


BatchMessages ==
    { <<RoleUser, Please>>,
      <<RoleUser, Flatten(<<Please, Space, Fix>>)>>,
      <<RoleAssistant, Flatten(<<LetMe, Space, Fix>>)>>,
      <<RoleAssistant, Flatten(<<Space, Fix, Period, LineFeed>>)>>,
      <<RoleAssistant, Flatten(<<Fix, Period, Space, AnythingElse>>)>>,
      <<RoleTool, Flatten(<<ToolSentinel, Fix>>)>>,
      <<RoleSystem, Flatten(<<ReminderOpen, Fix, ReminderClose>>)>>,
      <<RoleUser, Accent>> }

MaxBatch == 3

InitCompress ==
    /\ pc = "collected"
    /\ parts = <<>>
    /\ content = <<>>
    /\ filtered = None
    /\ refiltered = None
    /\ cycle = <<>>
    /\ reps = 0
    /\ messages \in SeqsUpTo(BatchMessages, MaxBatch)
    /\ compressed = <<>>
    /\ detections = <<>>
    /\ EmptyStore
    /\ NoWrapper
    /\ NoMetrics
    /\ NoCalls

\* let compressed = compressor.compress_batch(&messages)
CompressBatch ==
    /\ pc = "collected"
    /\ compressed' = compress_batch(messages)
    /\ pc' = "compressed"
    /\ UNCHANGED <<store, wrapper, logging, metrics, parts, content, filtered, refiltered, cycle, reps, messages, detections, shared>>

NextCompress == CompressBatch

SpecCompress == InitCompress /\ [][NextCompress]_vars

---------------------------------------------------------------------------
(* Sessions handed to the loop detector                                    *)

ContentAB == <<"a", " ", "b">>
ContentAWideB == <<"a", " ", " ", "b">>
ContentC == <<"c">>

LoopMessages ==
    { <<RoleUser, ContentAB>>, <<RoleAssistant, ContentAB>>,
      <<RoleUser, ContentAWideB>>, <<RoleAssistant, ContentC>> }

MaxCycle == 4
MaxReps == 50
MaxPrefix == 1
MaxVaried == 201

\* format!("{}", n)
DecimalDigits == <<"0", "1", "2", "3", "4", "5", "6", "7", "8", "9">>
RECURSIVE Decimal(_)
Decimal(n) ==
    IF n < 10 THEN <<DecimalDigits[n + 1]>>
    ELSE Append(Decimal(n \div 10), DecimalDigits[(n % 10) + 1])

\* the i-th message of a session that never repeats itself
FreshMessage(i) ==
    <<IF i % 2 = 1 THEN RoleUser ELSE RoleAssistant, <<"m", " ">> \o Decimal(i)>>

\* the repeating units of a runaway session: pairwise distinct messages
Cycles ==
    { c \in SeqsUpTo(LoopMessages, MaxCycle) :
        c # <<>> /\ \A i, j \in 1..Len(c) : i # j => c[i] # c[j] }

InitLoop ==
    /\ pc = "collecting"
    /\ parts = <<>>
    /\ content = <<>>
    /\ filtered = None
    /\ refiltered = None
    /\ cycle = <<>>
    /\ reps = 0
    /\ messages = <<>>
    /\ compressed = <<>>
    /\ detections = <<>>
    /\ EmptyStore
    /\ NoWrapper
    /\ NoMetrics
    /\ NoCalls

\* the session goes on with a message not seen before
PushFresh ==
    /\ pc = "collecting"
    /\ reps = 0
    /\ Len(messages) < MaxVaried
    /\ messages' = Append(messages, FreshMessage(Len(messages) + 1))
    /\ UNCHANGED <<store, wrapper, logging, metrics, pc, parts, content, filtered, refiltered, cycle, reps, compressed,
                   detections, shared>>

\* the automation got stuck: the same exchange is appended once more
RepeatCycle ==
    /\ pc = "collecting"
    /\ reps < MaxReps
    /\ \E c \in Cycles :
        /\ IF reps = 0 THEN Len(messages) <= MaxPrefix ELSE c = cycle
        /\ cycle' = c
        /\ messages' = messages \o c
    /\ reps' = reps + 1
    /\ UNCHANGED <<store, wrapper, logging, metrics, pc, parts, content, filtered, refiltered, compressed, detections, shared>>

\* let detections = detector.analyze(&messages)
Analyze ==
    /\ pc = "collecting"
    /\ detections' = analyze(messages)
    /\ pc' = "analyzed"
    /\ UNCHANGED <<store, wrapper, logging, metrics, parts, content, filtered, refiltered, cycle, reps, messages, compressed, shared>>

NextLoop == PushFresh \/ RepeatCycle \/ Analyze

SpecLoop == InitLoop /\ [][NextLoop]_vars

\* exchanges in which a message may come back: the same answer to two prompts
Exchanges == SeqsUpTo(LoopMessages, MaxCycle) \ {<<>>}

MaxRounds == 10

\* one more round of an exchange that keeps coming back
RepeatExchange ==
    /\ pc = "collecting"
    /\ reps < MaxRounds
    /\ \E c \in Exchanges :
        /\ reps = 0 \/ c = cycle
        /\ cycle' = c
        /\ messages' = messages \o c
    /\ reps' = reps + 1
    /\ UNCHANGED <<store, wrapper, logging, metrics, pc, parts, content, filtered, refiltered, compressed, detections, shared>>

NextWindows == RepeatExchange \/ Analyze

SpecWindows == InitLoop /\ [][NextWindows]_vars

---------------------------------------------------------------------------
(* continuum import: a session is read, compressed and written to the logs *)

Assistants == {"codex", "goose", "claude-code"}

\* what the adapters read from the assistant's own log of the session
SessionMessages ==
    { <<RoleUser, Flatten(<<Please, Space, Fix>>)>>,
      <<RoleAssistant, Flatten(<<Fix, Period>>)>>,
      <<RoleUser, Please>> }

MaxSession == 2
MaxLines == 3

\* the date of the first timestamp in a Claude Code session log
SessionDate == 1

\* PlainTextWriter::write_session: session.json is created anew
write_session(files, date, name, status, count) ==
    [files EXCEPT ![date] =
        Some([assistant |-> name, start_time |-> Some(date), end_time |-> None,
              status |-> status, message_count |-> count])]

\* PlainTextWriter::append_message: one line is added at the end of messages.jsonl
append_message(files, date, message_id, role, text, timestamp) ==
    [files EXCEPT ![date] =
        Append(@, [id |-> message_id, role |-> role, content |-> text,
                   timestamp |-> timestamp])]

\* for (idx, (role, content)) in compressed.iter().enumerate() { append_message(.., idx + 1, ..) }
RECURSIVE AppendAll(_, _, _, _)
AppendAll(files, date, batch, idx) ==
    IF idx >= Len(batch) THEN files
    ELSE AppendAll(append_message(files, date, idx + 1, batch[idx + 1][1], batch[idx + 1][2],
                                  Some(date)),
                   date, batch, idx + 1)

InitImport ==
    /\ pc = "idle"
    /\ parts = <<>>
    /\ content = <<>>
    /\ filtered = None
    /\ refiltered = None
    /\ cycle = <<>>
    /\ reps = 0
    /\ messages = <<>>
    /\ compressed = <<>>
    /\ detections = <<>>
    /\ assistant \in Assistants
    /\ today = 1
    /\ session_json = [d \in Dates |-> None]
    /\ messages_jsonl = [d \in Dates |-> <<>>]
    /\ NoWrapper
    /\ NoMetrics
    /\ NoCalls

\* the session of the model, and any other one, as the wrappers find them
ThisSession == Some("session")
OtherSession == Some("other")

\* the assistant goes on with the session: its own log gets one more message
SessionGrows ==
    /\ pc \in {"idle", "wrapped"}
    /\ Len(messages) < MaxSession
    /\ \E m \in SessionMessages : messages' = Append(messages, m)
    /\ latest_session' = ThisSession
    /\ UNCHANGED <<pc, parts, content, filtered, refiltered, cycle, reps, compressed,
                   detections, store, marker, skip_saving, before_session, session_dir,
                   logging, metrics, shared>>

MaxLoops == 2

\* the assistant gets stuck: the same message min_repetitions times in a row
SessionLoops ==
    /\ pc \in {"idle", "wrapped"}
    /\ reps < MaxLoops
    /\ \E m \in SessionMessages :
        /\ reps = 0 \/ cycle = <<m>>
        /\ cycle' = <<m>>
        /\ messages' = messages \o [i \in 1..min_repetitions |-> m]
    /\ reps' = reps + 1
    /\ latest_session' = ThisSession
    /\ UNCHANGED <<pc, parts, content, filtered, refiltered, compressed, detections, store,
                   marker, skip_saving, before_session, session_dir, logging, metrics, shared>>

\* midnight (UTC) passes
NextDay ==
    /\ pc = "idle"
    /\ today < MaxDays
    /\ today' = today + 1
    /\ UNCHANGED <<pc, parts, content, filtered, refiltered, cycle, reps, messages,
                   compressed, detections, assistant, session_json, messages_jsonl,
                   wrapper, logging, metrics, shared>>

\* Faulty variant: a critical finding keeps the session from being written
ImportCodex_blocking ==
    /\ pc = "idle"
    /\ assistant = "codex"
    /\ Len(messages_jsonl[today]) + Len(compress_batch(messages)) <= MaxLines
    /\ compressed' = compress_batch(messages)
    /\ detections' = analyze(messages)
    /\ IF \E i \in 1..Len(detections') : detections'[i].severity = "Critical"
       THEN UNCHANGED <<session_json, messages_jsonl>>
       ELSE /\ session_json' = write_session(session_json, today, "codex", "closed",
                                             Len(compressed'))
            /\ messages_jsonl' = AppendAll(messages_jsonl, today, compressed', 0)
    /\ UNCHANGED <<pc, parts, content, filtered, refiltered, cycle, reps, messages,
                   assistant, today, wrapper, logging, metrics, shared>>

\* import_codex_session: the date is the day of the import
ImportCodex ==
    /\ pc = "idle"
    /\ assistant = "codex"
    /\ Len(messages_jsonl[today]) + Len(compress_batch(messages)) <= MaxLines
    /\ compressed' = compress_batch(messages)
    /\ detections' = analyze(messages)
    /\ session_json' = write_session(session_json, today, "codex", "closed", Len(compressed'))
    /\ messages_jsonl' = AppendAll(messages_jsonl, today, compressed', 0)
    /\ UNCHANGED <<pc, parts, content, filtered, refiltered, cycle, reps, messages,
                   assistant, today, wrapper, logging, metrics, shared>>

\* import_goose_session: the date is the day of the import; nothing is written
\* when no message is left
ImportGoose ==
    /\ pc = "idle"
    /\ assistant = "goose"
    /\ Len(messages_jsonl[today]) + Len(compress_batch(messages)) <= MaxLines
    /\ compressed' = compress_batch(messages)
    /\ IF Len(compressed') = 0
       THEN UNCHANGED <<session_json, messages_jsonl>>
       ELSE /\ session_json' = write_session(session_json, today, "goose", "closed", Len(compressed'))
            /\ messages_jsonl' = AppendAll(messages_jsonl, today, compressed', 0)
    /\ UNCHANGED <<pc, parts, content, filtered, refiltered, cycle, reps, messages,
                   detections, assistant, today, wrapper, logging, metrics, shared>>

\* import_claude_code_session: the date is that of the session's first
\* timestamp; nothing is written when no message is left
ImportClaudeCode ==
    /\ pc = "idle"
    /\ assistant = "claude-code"
    /\ Len(messages_jsonl[SessionDate]) + Len(compress_batch(messages)) <= MaxLines
    /\ compressed' = compress_batch(messages)
    /\ IF Len(compressed') = 0
       THEN UNCHANGED <<session_json, messages_jsonl>>
       ELSE /\ session_json' =
                   write_session(session_json, SessionDate, "claude-code", "closed",
                                 Len(compressed'))
            /\ messages_jsonl' = AppendAll(messages_jsonl, SessionDate, compressed', 0)
    /\ UNCHANGED <<pc, parts, content, filtered, refiltered, cycle, reps, messages,
                   detections, assistant, today, wrapper, logging, metrics, shared>>

NextImport ==
    \/ SessionGrows \/ SessionLoops \/ NextDay
    \/ ImportCodex \/ ImportGoose \/ ImportClaudeCode

SpecImport == InitImport /\ [][NextImport]_vars

---------------------------------------------------------------------------
(* The wrappers: continuum-codex, continuum-goose, continuum-claude        *)

\* the user leaves ~/.continuum-nosave before a conversation
LeaveMarker ==
    /\ pc \in {"idle", "print"}
    /\ ~marker
    /\ marker' = TRUE
    /\ UNCHANGED <<pc, parts, content, filtered, refiltered, cycle, reps, messages,
                   compressed, detections, store, skip_saving, before_session,
                   latest_session, session_dir, logging, metrics, shared>>

\* another session of the assistant becomes its most recent one
AnotherSession ==
    /\ pc \in {"idle", "wrapped"}
    /\ latest_session # OtherSession
    /\ latest_session' = OtherSession
    /\ UNCHANGED <<pc, parts, content, filtered, refiltered, cycle, reps, messages,
                   compressed, detections, store, marker, skip_saving, before_session,
                   session_dir, logging, metrics, shared>>

\* Faulty variant: the marker is found but not removed
WrapperStarts_marker_left ==
    /\ pc = "idle"
    /\ pc' = "wrapped"
    /\ skip_saving' = marker
    /\ before_session' = latest_session
    /\ UNCHANGED <<parts, content, filtered, refiltered, cycle, reps, messages,
                   compressed, detections, store, marker, latest_session, session_dir,
                   logging, metrics, shared>>

\* main, up to the spawn of the assistant: the marker is looked for and
\* removed, and the latest session is noted
WrapperStarts ==
    /\ pc = "idle"
    /\ pc' = "wrapped"
    /\ skip_saving' = marker
    /\ marker' = FALSE
    /\ before_session' = latest_session
    /\ UNCHANGED <<parts, content, filtered, refiltered, cycle, reps, messages,
                   compressed, detections, store, latest_session, session_dir, logging, metrics, shared>>

\* if let Some(session_path) = after_session { if before_session != Some(session_path)
NewSession == latest_session # None /\ before_session # latest_session

\* std::process::exit: the wrapper's locals are gone
WrapperReturns ==
    /\ pc' = "idle"
    /\ skip_saving' = FALSE
    /\ before_session' = None
    /\ session_dir' = None
    /\ UNCHANGED <<marker, latest_session>>

\* continuum-codex, after the assistant has exited: the session is imported
\* unless saving is skipped or no new session is found; an import that
\* leaves no message fails before anything is analyzed or written
CodexExits ==
    /\ pc = "wrapped"
    /\ assistant = "codex"
    /\ Len(messages_jsonl[today]) + Len(compress_batch(messages)) <= MaxLines
    /\ IF ~skip_saving /\ NewSession /\ latest_session = ThisSession
       THEN /\ compressed' = compress_batch(messages)
            /\ IF Len(compressed') = 0
               THEN /\ WrapperReturns
                    /\ UNCHANGED <<detections, session_json, messages_jsonl>>
               ELSE /\ detections' = analyze(messages)
                    /\ session_json' = write_session(session_json, today, "codex", "closed",
                                                     Len(compressed'))
                    /\ messages_jsonl' = AppendAll(messages_jsonl, today, compressed', 0)
                    /\ pc' = "review"
                    /\ session_dir' = Some(today)
                    /\ UNCHANGED <<marker, skip_saving, before_session, latest_session>>
       ELSE /\ WrapperReturns
            /\ UNCHANGED <<compressed, detections, session_json, messages_jsonl>>
    /\ UNCHANGED <<parts, content, filtered, refiltered, cycle, reps, messages,
                   assistant, today, logging, metrics, shared>>

\* continuum-goose, after the assistant has exited: as above without analysis
GooseExits ==
    /\ pc = "wrapped"
    /\ assistant = "goose"
    /\ Len(messages_jsonl[today]) + Len(compress_batch(messages)) <= MaxLines
    /\ IF ~skip_saving /\ NewSession /\ latest_session = ThisSession
       THEN /\ compressed' = compress_batch(messages)
            /\ IF Len(compressed') = 0
               THEN /\ WrapperReturns
                    /\ UNCHANGED <<session_json, messages_jsonl>>
               ELSE /\ session_json' = write_session(session_json, today, "goose", "closed",
                                                     Len(compressed'))
                    /\ messages_jsonl' = AppendAll(messages_jsonl, today, compressed', 0)
                    /\ pc' = "review"
                    /\ session_dir' = Some(today)
                    /\ UNCHANGED <<marker, skip_saving, before_session, latest_session>>
       ELSE /\ WrapperReturns
            /\ UNCHANGED <<compressed, session_json, messages_jsonl>>
    /\ UNCHANGED <<parts, content, filtered, refiltered, cycle, reps, messages,
                   detections, assistant, today, logging, metrics, shared>>

\* prompt_save_conversation and what follows: on "n" or "no" the session's
\* directory is removed
Review ==
    /\ pc = "review"
    /\ \E keep \in BOOLEAN :
        IF keep
        THEN UNCHANGED <<session_json, messages_jsonl>>
        ELSE /\ session_json' = [session_json EXCEPT ![session_dir[1]] = None]
             /\ messages_jsonl' = [messages_jsonl EXCEPT ![session_dir[1]] = <<>>]
    /\ WrapperReturns
    /\ UNCHANGED <<parts, content, filtered, refiltered, cycle, reps, messages,
                   compressed, detections, assistant, today, logging, metrics, shared>>

\* continuum-claude without --print, after the assistant has exited: a new
\* session is imported, or removed from Claude's own storage when saving is
\* skipped; nobody is asked
ClaudeExits ==
    /\ pc = "wrapped"
    /\ assistant = "claude-code"
    /\ Len(messages_jsonl[SessionDate]) + Len(compress_batch(messages)) <= MaxLines
    /\ pc' = "idle"
    /\ skip_saving' = FALSE
    /\ before_session' = None
    /\ IF NewSession /\ latest_session = ThisSession
       THEN IF skip_saving
            THEN /\ messages' = <<>>
                 /\ cycle' = <<>>
                 /\ reps' = 0
                 /\ latest_session' \in {None, OtherSession}
                 /\ UNCHANGED <<compressed, session_json, messages_jsonl>>
            ELSE /\ compressed' = compress_batch(messages)
                 /\ IF Len(compressed') = 0
                    THEN UNCHANGED <<session_json, messages_jsonl>>
                    ELSE /\ session_json' = write_session(session_json, SessionDate,
                                                          "claude-code", "closed",
                                                          Len(compressed'))
                         /\ messages_jsonl' =
                                AppendAll(messages_jsonl, SessionDate, compressed', 0)
                 /\ UNCHANGED <<messages, cycle, reps, latest_session>>
       ELSE UNCHANGED <<messages, cycle, reps, latest_session, compressed, session_json,
                        messages_jsonl>>
    /\ UNCHANGED <<parts, content, filtered, refiltered, detections, assistant, today,
                   marker, session_dir, logging, metrics, shared>>

\* the texts of the stream-json events, and what comes in on stdin
EventTexts == {Please, Flatten(<<Please, Space, Fix>>)}
PromptInputs == {Please, Flatten(<<Space, Fix, Period, LineFeed>>)}

\* PlainTextWriter::update_session_metadata: the updates are merged into what
\* session.json holds, or into {} if there is none
update_session_metadata(files, date, updates) ==
    LET existing == IF files[date] = None THEN <<>> ELSE files[date][1]
    IN  [files EXCEPT ![date] =
            Some([key \in DOMAIN existing \cup DOMAIN updates |->
                     IF key \in DOMAIN updates THEN updates[key] ELSE existing[key]])]

\* whether the session's directory of that date exists: write_session and
\* append_message create it, update_session_metadata does not
DirExists(date) == session_json[date] # None \/ messages_jsonl[date] # <<>>

\* extract_date(session_start_time.as_deref().or(Some(&timestamp))), and
\* extract_date(session_start_time.as_deref()) which defaults to today
LogDate == IF session_start_time # None THEN session_start_time[1] ELSE today

\* continuum-claude --print, up to the loop over claude's stdout
PrintStarts ==
    /\ pc = "print"
    /\ pc' = "logging"
    /\ skip_saving' = marker
    /\ marker' = FALSE
    /\ user_prompt' \in {None} \cup {Some(Trim(c)) : c \in PromptInputs}
    /\ session_id' = None
    /\ session_start_time' = None
    /\ message_count' = 0
    /\ UNCHANGED <<parts, content, filtered, refiltered, cycle, reps, messages, compressed,
                   detections, store, before_session, latest_session, session_dir,
                   metrics, shared>>

\* the process ends: its locals are gone
PrintReturns ==
    /\ pc' = "print"
    /\ skip_saving' = FALSE
    /\ user_prompt' = None
    /\ session_id' = None
    /\ session_start_time' = None
    /\ message_count' = 0

\* ClaudeEvent::System
SystemEvent ==
    /\ pc = "logging"
    /\ session_id' = ThisSession
    /\ session_start_time' = Some(today)
    /\ IF ~skip_saving
       THEN /\ session_json' = write_session(session_json, today, "claude-code", "active", 0)
            /\ IF user_prompt # None /\ filter(user_prompt[1]) # None
               THEN /\ Len(messages_jsonl[today]) < MaxLines
                    /\ message_count' = message_count + 1
                    /\ messages_jsonl' =
                           append_message(messages_jsonl, today, message_count', RoleUser,
                                          filter(user_prompt[1])[1], Some(today))
               ELSE UNCHANGED <<message_count, messages_jsonl>>
       ELSE UNCHANGED <<session_json, message_count, messages_jsonl>>
    /\ UNCHANGED <<pc, parts, content, filtered, refiltered, cycle, reps, messages,
                   compressed, detections, assistant, today, wrapper, user_prompt,
                   metrics, shared>>

\* ClaudeEvent::User and ClaudeEvent::Assistant: the text parts, joined, are
\* filtered and what is left is appended
LogMessage(role, text) ==
    /\ pc = "logging"
    /\ IF filter(text) # None /\ ~skip_saving
       THEN /\ Len(messages_jsonl[LogDate]) < MaxLines
            /\ message_count' = message_count + 1
            /\ messages_jsonl' =
                   append_message(messages_jsonl, LogDate, message_count', role,
                                  filter(text)[1], Some(today))
       ELSE UNCHANGED <<message_count, messages_jsonl>>
    /\ UNCHANGED <<pc, parts, content, filtered, refiltered, cycle, reps, messages,
                   compressed, detections, assistant, today, session_json, wrapper,
                   user_prompt, session_id, session_start_time, metrics, shared>>

UserEvent == \E text \in EventTexts : LogMessage(RoleUser, text)

AssistantEvent == \E text \in EventTexts : LogMessage(RoleAssistant, text)

\* ClaudeEvent::Result: session.json is updated; where the directory is
\* missing File::create fails and the error ends run_with_logging
ResultEvent ==
    /\ pc = "logging"
    /\ IF skip_saving
       THEN UNCHANGED <<pc, skip_saving, session_json, logging>>
       ELSE IF DirExists(LogDate)
       THEN /\ session_json' =
                   update_session_metadata(session_json, LogDate,
                       [status |-> "closed", end_time |-> Some(today),
                        message_count |-> message_count])
            /\ UNCHANGED <<pc, skip_saving, logging>>
       ELSE /\ PrintReturns
            /\ UNCHANGED session_json
    /\ UNCHANGED <<parts, content, filtered, refiltered, cycle, reps, messages,
                   compressed, detections, assistant, today, messages_jsonl, marker,
                   before_session, latest_session, session_dir, metrics, shared>>

\* claude's stdout is at its end
PrintExits ==
    /\ pc = "logging"
    /\ PrintReturns
    /\ UNCHANGED <<parts, content, filtered, refiltered, cycle, reps, messages,
                   compressed, detections, store, marker, before_session, latest_session,
                   session_dir, metrics, shared>>

\* the session grows while its assistant runs under a wrapper
NextWrapper ==
    \/ (pc = "wrapped" /\ (SessionGrows \/ SessionLoops \/ AnotherSession))
    \/ LeaveMarker \/ ImportCodex
    \/ WrapperStarts \/ CodexExits \/ GooseExits \/ Review \/ ClaudeExits
    \/ PrintStarts \/ SystemEvent \/ UserEvent \/ AssistantEvent \/ ResultEvent \/ PrintExits

\* the session is one that the user drives through an interactive wrapper
\* (and continuum import), or one of continuum-claude --print
InitWrapper ==
    /\ pc \in {"idle", "print"}
    /\ parts = <<>>
    /\ content = <<>>
    /\ filtered = None
    /\ refiltered = None
    /\ cycle = <<>>
    /\ reps = 0
    /\ messages = <<>>
    /\ compressed = <<>>
    /\ detections = <<>>
    /\ assistant \in (IF pc = "print" THEN {"claude-code"} ELSE Assistants)
    /\ today = 1
    /\ session_json = [d \in Dates |-> None]
    /\ messages_jsonl = [d \in Dates |-> <<>>]
    /\ NoWrapper
    /\ NoMetrics
    /\ NoCalls

SpecWrapper == InitWrapper /\ [][NextWrapper]_vars

---------------------------------------------------------------------------
(* Token estimates                                                         *)

\* usize::saturating_sub
saturating_sub(a, b) == IF a >= b THEN a - b ELSE 0

\* Faulty variant: the difference is not floored
token_savings_unsaturated(original, filtered_text) ==
    LET original_tokens_ == (ByteLen(original) + 3) \div 4
        filtered_tokens ==
            IF filtered_text = None THEN 0 ELSE (ByteLen(filtered_text[1]) + 3) \div 4
    IN  original_tokens_ - filtered_tokens

\* NoiseFilter::token_savings; a str is at most isize::MAX bytes long, so
\* len() + 3 stays within usize
token_savings(original, filtered_text) ==
    LET original_tokens_ == (ByteLen(original) + 3) \div 4
        filtered_tokens ==
            IF filtered_text = None THEN 0 ELSE (ByteLen(filtered_text[1]) + 3) \div 4
    IN  saturating_sub(original_tokens_, filtered_tokens)

MaxText == 4

\* texts of one-byte and two-byte characters
TokenTexts == SeqsUpTo({"a", "é"}, MaxText)

InitSavings ==
    /\ pc = "ready"
    /\ parts = <<>>
    /\ content \in TokenTexts
    /\ filtered \in {None} \cup {Some(t) : t \in TokenTexts}
    /\ refiltered = None
    /\ cycle = <<>>
    /\ reps = 0
    /\ messages = <<>>
    /\ compressed = <<>>
    /\ detections = <<>>
    /\ EmptyStore
    /\ NoWrapper
    /\ NoMetrics
    /\ NoCalls

\* filter.token_savings(original, filtered)
TokenSavings ==
    /\ pc = "ready"
    /\ savings' = token_savings(content, filtered)
    /\ pc' = "saved"
    /\ UNCHANGED <<store, wrapper, logging, parts, content, filtered, refiltered, cycle, reps,
                   messages, compressed, detections, original_tokens, compressed_tokens,
                   ratio, shared>>

NextSavings == TokenSavings

SpecSavings == InitSavings /\ [][NextSavings]_vars

\* f64 values are modelled by the rational they stand for: num / den in lowest
\* terms, with `rounded` telling that the binary format cannot hold it and
\* the double is a neighbour of it; den = 0 stands for the infinities
\* (num = 1, -1) and for NaN (num = 0).  The integers of the model are far
\* below 2^53, so a value is held exactly iff its denominator is a power of two.
Abs(n) == IF n < 0 THEN 0 - n ELSE n
Sign(n) == IF n < 0 THEN 0 - 1 ELSE IF n > 0 THEN 1 ELSE 0

RECURSIVE Gcd(_, _)
Gcd(a, b) == IF b = 0 THEN a ELSE Gcd(b, a % b)

RECURSIVE IsPowerOfTwo(_)
IsPowerOfTwo(n) == n = 1 \/ (n > 1 /\ n % 2 = 0 /\ IsPowerOfTwo(n \div 2))

\* the double nearest to n / d (d > 0), given whether an operand was rounded
F64(n, d, inexact) ==
    LET g == Gcd(Abs(n), d)
    IN  [num |-> Sign(n) * (Abs(n) \div g), den |-> d \div g,
         rounded |-> inexact \/ ~IsPowerOfTwo(d \div g)]

NaN == [num |-> 0, den |-> 0, rounded |-> FALSE]
Infinity(sign) == [num |-> sign, den |-> 0, rounded |-> FALSE]

\* usize as f64
AsF64(n) == F64(n, 1, FALSE)

\* x / y of IEEE 754
F64Div(x, y) ==
    IF x.den = 0 \/ y.den = 0 THEN NaN
    ELSE IF y.num = 0 THEN Infinity(Sign(x.num))
    ELSE F64(x.num * y.den * Sign(y.num), x.den * Abs(y.num), x.rounded \/ y.rounded)

\* x - y
F64Sub(x, y) ==
    IF y.den = 0 THEN Infinity(0 - y.num)
    ELSE IF x.den = 0 THEN x
    ELSE F64(x.num * y.den - y.num * x.den, x.den * y.den, x.rounded \/ y.rounded)

\* x * y
F64Mul(x, y) ==
    IF x.den = 0 \/ y.den = 0 THEN Infinity(Sign(x.num) * Sign(y.num))
    ELSE F64(x.num * y.num, x.den * y.den, x.rounded \/ y.rounded)

\* Faulty variant: the quotient is taken whatever the divisor
compression_ratio_unguarded(original, compressed_) ==
    F64Mul(F64Sub(AsF64(1), F64Div(AsF64(compressed_), AsF64(original))), AsF64(100))

\* MessageCompressor::compression_ratio
compression_ratio(original, compressed_) ==
    IF original = 0 THEN AsF64(0)
    ELSE F64Mul(F64Sub(AsF64(1), F64Div(AsF64(compressed_), AsF64(original))), AsF64(100))

MaxTokens == 100

InitRatio ==
    /\ pc = "ready"
    /\ parts = <<>>
    /\ content = <<>>
    /\ filtered = None
    /\ refiltered = None
    /\ cycle = <<>>
    /\ reps = 0
    /\ messages = <<>>
    /\ compressed = <<>>
    /\ detections = <<>>
    /\ EmptyStore
    /\ NoWrapper
    /\ savings = 0
    /\ original_tokens \in 0..MaxTokens
    /\ compressed_tokens \in 0..MaxTokens
    /\ ratio = None
    /\ NoCalls

\* compressor.compression_ratio(original_tokens, compressed_tokens)
CompressionRatio ==
    /\ pc = "ready"
    /\ ratio' = compression_ratio(original_tokens, compressed_tokens)
    /\ pc' = "measured"
    /\ UNCHANGED <<store, wrapper, logging, parts, content, filtered, refiltered, cycle, reps,
                   messages, compressed, detections, savings, original_tokens,
                   compressed_tokens, shared>>

NextRatio == CompressionRatio

SpecRatio == InitRatio /\ [][NextRatio]_vars

\* MessageCompressor::estimate_tokens
RECURSIVE estimate_tokens(_)
estimate_tokens(msgs) ==
    IF msgs = <<>> THEN 0
    ELSE 5 + ((ByteLen(Head(msgs)[2]) + 3) \div 4) + estimate_tokens(Tail(msgs))

\* the batch is estimated before and after compression, and the two
\* estimates compared
EstimateTokens ==
    /\ pc = "compressed"
    /\ original_tokens' = estimate_tokens(messages)
    /\ compressed_tokens' = estimate_tokens(compressed)
    /\ ratio' = compression_ratio(original_tokens', compressed_tokens')
    /\ pc' = "estimated"
    /\ UNCHANGED <<store, wrapper, logging, parts, content, filtered, refiltered, cycle, reps,
                   messages, compressed, detections, savings, shared>>

NextEstimate == CompressBatch \/ EstimateTokens

SpecEstimate == InitCompress /\ [][NextEstimate]_vars

---------------------------------------------------------------------------
(* One NoiseFilter, MessageCompressor and LoopDetector shared by threads   *)

\* the entries with the greatest count
Maximal(counts) == {k \in DOMAIN counts : \A j \in DOMAIN counts : counts[j] <= counts[k]}

\* Faulty variant: the first entry met that reaches the threshold
max_by_key_first_repeated(counts) ==
    IF \E k \in DOMAIN counts : counts[k] >= min_repetitions
    THEN {Some(counts[k]) : k \in {j \in DOMAIN counts : counts[j] >= min_repetitions}}
    ELSE {None}

\* counts.iter().max_by_key(|(_, &count)| count) with the map's iteration order
\* left open: a HashMap iterates in an order that differs from map to map
\* (RandomState), and max_by_key returns the last of the greatest entries met;
\* the counts it may return
max_by_key(counts) ==
    IF DOMAIN counts = {} THEN {None}
    ELSE {Some(counts[k]) : k \in Maximal(counts)}

\* what detect_content_repetition may return
ContentOutcomes(msgs) ==
    {ContentDetection(max) :
        max \in max_by_key(CountEntries([i \in 1..Len(msgs) |-> hash_content(msgs[i][2])]))}

\* what find_repeating_pattern may return
PatternOutcomes(msgs, pattern_size) ==
    IF Len(msgs) < pattern_size * detector.min_repetitions THEN {None}
    ELSE {PatternDetection(pattern_size, max) :
             max \in max_by_key(CountEntries(WindowHashes(msgs, pattern_size)))}

\* what detect_message_pattern_loops may return: the first size that finds
\* something ends the scan
RECURSIVE ScanOutcomes(_, _, _)
ScanOutcomes(msgs, pattern_size, last) ==
    IF pattern_size > last THEN {None}
    ELSE LET found == PatternOutcomes(msgs, pattern_size)
         IN  (found \ {None})
                 \cup (IF None \in found THEN ScanOutcomes(msgs, pattern_size + 1, last)
                       ELSE {})

MaxThreads == 2
Threads == 1..MaxThreads

Stuck(m, n) == [i \in 1..n |-> m]
Turn == <<RoleUser, Flatten(<<Please, Space, Fix>>)>>
Reply == <<RoleAssistant, Flatten(<<Fix, Period>>)>>

\* batches in which several contents, or several windows, reach the threshold
SharedBatches ==
    { Stuck(Turn, 10) \o Stuck(Reply, 10),
      [i \in 1..20 |-> IF i % 2 = 1 THEN Turn ELSE Reply],
      Stuck(Turn, 12) \o Stuck(Reply, 10),
      <<Turn, Reply>> }

SharedContents == {Please, Turn[2], Flatten(<<Space, Fix, Period, LineFeed>>)}

\* a thread is about to call one of the three components on an input of its own
NewCalls ==
    {[op |-> "filter", input |-> c, at |-> "called", result |-> None] : c \in SharedContents}
    \cup {[op |-> "compress_batch", input |-> b, at |-> "called", result |-> <<>>] :
             b \in SharedBatches}
    \cup {[op |-> "analyze", input |-> b, at |-> "called", result |-> <<>>] :
             b \in SharedBatches}

InitShared ==
    /\ pc = "threads"
    /\ parts = <<>>
    /\ content = <<>>
    /\ filtered = None
    /\ refiltered = None
    /\ cycle = <<>>
    /\ reps = 0
    /\ messages = <<>>
    /\ compressed = <<>>
    /\ detections = <<>>
    /\ EmptyStore
    /\ NoWrapper
    /\ NoMetrics
    /\ detector = [max_messages_warning |-> max_messages_warning,
                   max_messages_critical |-> max_messages_critical,
                   min_repetitions |-> min_repetitions,
                   max_pattern_size |-> max_pattern_size]
    /\ calls \in [Threads -> NewCalls]

\* what every step of a thread leaves alone: all but its own call
OnlyCall(t, call) ==
    /\ calls' = [calls EXCEPT ![t] = call]
    /\ UNCHANGED <<pc, parts, content, filtered, refiltered, cycle, reps, messages,
                   compressed, detections, store, wrapper, logging, metrics, detector>>

\* filter.filter(content) on thread t
CallFilter(t) ==
    /\ calls[t].op = "filter"
    /\ calls[t].at = "called"
    /\ OnlyCall(t, [calls[t] EXCEPT !.result = filter(calls[t].input), !.at = "returned"])

\* compressor.compress_batch(&messages) on thread t
CallCompressBatch(t) ==
    /\ calls[t].op = "compress_batch"
    /\ calls[t].at = "called"
    /\ OnlyCall(t, [calls[t] EXCEPT !.result = compress_batch(calls[t].input),
                                    !.at = "returned"])

\* detector.analyze(&messages) on thread t, check 1: the thresholds are read
\* from the shared instance
AnalyzeCount(t) ==
    /\ calls[t].op = "analyze"
    /\ calls[t].at = "called"
    /\ LET n == Len(calls[t].input)
           found ==
               IF n >= detector.max_messages_critical
               THEN Some(Detection("Critical",
                        "Extremely high message count: {} messages (threshold: {})",
                        <<n, detector.max_messages_critical>>, 0, 0))
               ELSE IF n >= detector.max_messages_warning
               THEN Some(Detection("Warning",
                        "High message count: {} messages (threshold: {})",
                        <<n, detector.max_messages_warning>>, 0, 0))
               ELSE None
       IN  OnlyCall(t, [calls[t] EXCEPT !.result = found, !.at = "counted"])

\* check 2
AnalyzeContent(t) ==
    /\ calls[t].op = "analyze"
    /\ calls[t].at = "counted"
    /\ \E found \in ContentOutcomes(calls[t].input) :
        OnlyCall(t, [calls[t] EXCEPT !.result = @ \o found, !.at = "compared"])

\* check 3, and the return
AnalyzePattern(t) ==
    /\ calls[t].op = "analyze"
    /\ calls[t].at = "compared"
    /\ \E found \in ScanOutcomes(calls[t].input, 2,
                                 Min(detector.max_pattern_size, Len(calls[t].input) \div 4)) :
        OnlyCall(t, [calls[t] EXCEPT !.result = @ \o found, !.at = "returned"])

\* the thread goes on to its next call
NextCall(t) ==
    /\ calls[t].at = "returned"
    /\ \E call \in NewCalls : OnlyCall(t, call)

NextShared ==
    \E t \in Threads :
        \/ CallFilter(t) \/ CallCompressBatch(t)
        \/ AnalyzeCount(t) \/ AnalyzeContent(t) \/ AnalyzePattern(t)
        \/ NextCall(t)

SpecShared == InitShared /\ [][NextShared]_vars

---------------------------------------------------------------------------
(* Properties of the compressor and the filter                             *)

\* C1: compress_batch returns the input with some messages deleted and nothing
\* moved: the survivors are an order-preserving selection of the input, each
\* with its role unchanged and its content the filter's cleaned text of that
\* message's own content, and the output is never longer than the input.
C1_CompressIsSubsequence ==
    pc = "compressed" =>
        /\ Len(compressed) <= Len(messages)
        /\ \E idx \in [1..Len(compressed) -> 1..Len(messages)] :
            /\ \A i, j \in 1..Len(compressed) : i < j => idx[i] < idx[j]
            /\ \A j \in 1..Len(compressed) :
                /\ compressed[j][1] = messages[idx[j]][1]
                /\ filter(messages[idx[j]][2]) = Some(compressed[j][2])

\* a batch of three of which the middle one was deleted and a survivor trimmed
C1_Witness ==
    /\ pc = "compressed"
    /\ Len(messages) = 3
    /\ Len(compressed) = 2
    /\ filter(messages[2][2]) = None
    /\ compressed[1] # compressed[2]
    /\ compressed[2][2] # messages[3][2]

PlainPieces == {Please, LetMe, AnythingElse, Done, Space, Period, Fix}

\* C2: a content made of plain words only (no wrapper), in which substantive
\* text stands before or after a pleasantry, opener or closer phrase, is not
\* entirely noise: filter returns Some.
C2_SubstantiveTextKept ==
    ( /\ pc = "filtered"
      /\ \A i \in 1..Len(parts) : parts[i] \in PlainPieces
      /\ \E i \in 1..Len(parts) : parts[i] = Fix )
    => filtered # None

\* C3: filtering is idempotent: a second pass over cleaned text returns it
\* unchanged.
C3_FilterIdempotent == pc = "refiltered" => refiltered = filtered

---------------------------------------------------------------------------
(* Properties of the loop detector                                         *)

VolumeAt == {i \in 1..Len(detections) : detections[i].pattern_size = 0}
ContentAt == {i \in 1..Len(detections) : detections[i].pattern_size = 1}
PatternAt == {i \in 1..Len(detections) : detections[i].pattern_size >= 2}

\* 50 back-to-back repetitions of a cycle of four pairwise distinct messages
FourCycleFiftyTimes ==
    /\ pc = "analyzed"
    /\ Len(cycle) = 4
    /\ \A i, j \in 1..4 : i # j => cycle[i] # cycle[j]
    /\ reps = 50
    /\ Len(messages) = 200

\* C4 as stated: the pattern finding has pattern_size exactly 4.
C4_FourCycleReportsFour ==
    FourCycleFiftyTimes =>
        /\ PatternAt # {}
        /\ \A i \in PatternAt : detections[i].pattern_size = 4

\* C4 (amended): for 50 back-to-back repetitions of a cycle of four pairwise
\* distinct messages analyze returns one pattern finding, of pattern_size 2.
C4_FourCycleReportsTwo ==
    FourCycleFiftyTimes =>
        /\ Cardinality(PatternAt) = 1
        /\ \A i \in PatternAt : detections[i].pattern_size = 2

C4_Witness == FourCycleFiftyTimes /\ PatternAt # {}

\* exactly 20 messages, all with the same content
TwentyIdentical ==
    /\ pc = "analyzed"
    /\ Len(messages) = 20
    /\ \A i, j \in 1..20 : messages[i][2] = messages[j][2]

\* C5 as stated: the identical-content finding has count 20 and severity Warning.
C5_TwentyIdenticalWarning ==
    TwentyIdentical =>
        \E i \in ContentAt :
            detections[i].repetition_count = 20 /\ detections[i].severity = "Warning"

\* C5 (amended): 20 messages with the same content yield one identical-content
\* finding, with repetition_count 20 and severity Critical.
C5_TwentyIdenticalCritical ==
    TwentyIdentical =>
        /\ Cardinality(ContentAt) = 1
        /\ \A i \in ContentAt :
            detections[i].repetition_count = 20 /\ detections[i].severity = "Critical"

C5_Witness == TwentyIdentical /\ ContentAt # {}

\* content with every run of whitespace collapsed to one space
Normalized(c) == Join(SplitWhitespace(c))

\* the largest number of messages sharing one normalized content
LargestClass(keys) ==
    IF keys = <<>> THEN 0
    ELSE Greatest({Cardinality({j \in 1..Len(keys) : keys[j] = k}) :
                      k \in {keys[i] : i \in 1..Len(keys)}})

LargestContentClass ==
    LargestClass([i \in 1..Len(messages) |-> Normalized(messages[i][2])])

\* C6: with m the largest number of messages sharing one normalized content,
\* analyze emits exactly one pattern_size 1 finding, with repetition_count m,
\* Critical when m >= 20 and Warning when 10 <= m < 20, and none when m < 10.
ContentFindingFor(m) ==
    IF m < 10 THEN ContentAt = {}
    ELSE /\ Cardinality(ContentAt) = 1
         /\ \A i \in ContentAt :
             /\ detections[i].repetition_count = m
             /\ detections[i].severity = IF m >= 20 THEN "Critical" ELSE "Warning"

C6_ContentSeverityMapping == pc = "analyzed" => ContentFindingFor(LargestContentClass)

\* a Warning for content shared across roles and whitespace variants
C6_Witness ==
    /\ pc = "analyzed"
    /\ LargestContentClass \in 10..19
    /\ \E i \in ContentAt : detections[i].severity = "Warning"
    /\ \E i, j \in 1..Len(messages) :
        /\ messages[i][2] # messages[j][2]
        /\ Normalized(messages[i][2]) = Normalized(messages[j][2])

\* C7: a batch of n messages gets exactly one volume finding (pattern_size 0,
\* repetition_count 0), Critical when n >= 200 and Warning when 100 <= n < 200,
\* and none when n < 100.
C7_VolumeMapping ==
    pc = "analyzed" =>
        LET n == Len(messages)
        IN  IF n < 100 THEN VolumeAt = {}
            ELSE /\ Cardinality(VolumeAt) = 1
                 /\ \A i \in VolumeAt :
                     /\ detections[i].repetition_count = 0
                     /\ detections[i].severity = IF n >= 200 THEN "Critical" ELSE "Warning"

C7_Witness ==
    /\ pc = "analyzed"
    /\ Len(messages) = 200
    /\ \E i \in VolumeAt : detections[i].severity = "Critical"

\* the window sizes Pass C may examine for a batch of n messages
AdmissibleSizes(n) == {k \in 2..Min(10, n \div 4) : n >= 10 * k}

\* how often the most frequent window of k consecutive messages occurs
Occurrences(k) ==
    LargestClass([i \in 1..(Len(messages) - k + 1) |-> SubSeq(messages, i, i + k - 1)])

\* C8: Pass C reports the smallest admissible window size k at which some
\* window of k consecutive messages occurs at least 10 times: one finding with
\* pattern_size k, repetition_count the largest occurrence count at that k,
\* Critical iff that count is at least 20; and no pattern finding when no
\* admissible size qualifies.
PatternFindingFor(k, count) ==
    /\ Cardinality(PatternAt) = 1
    /\ \A i \in PatternAt :
        /\ detections[i].pattern_size = k
        /\ detections[i].repetition_count = count
        /\ detections[i].severity = IF count >= 20 THEN "Critical" ELSE "Warning"

PatternFindingAmong(sizes) ==
    IF sizes = {} THEN PatternAt = {}
    ELSE PatternFindingFor(Least(sizes), Occurrences(Least(sizes)))

C8_SmallestQualifyingSize ==
    pc = "analyzed" =>
        PatternFindingAmong({k \in AdmissibleSizes(Len(messages)) : Occurrences(k) >= 10})

\* a Warning pattern finding whose count is not the count of every window
C8_Witness ==
    /\ pc = "analyzed"
    /\ \E i \in PatternAt :
        /\ detections[i].severity = "Warning"
        /\ detections[i].repetition_count > 10
    /\ Len(messages) > 30

\* C9: a pattern finding of size k is produced only if
\* 2 <= k <= min(10, floor(n/4)) and n >= 10*k; so a batch of fewer than 20
\* messages never yields a finding with pattern_size >= 2.
C9_PatternSizeAdmissible ==
    pc = "analyzed" =>
        /\ \A i \in PatternAt :
            /\ detections[i].pattern_size \in 2..Min(10, Len(messages) \div 4)
            /\ Len(messages) >= 10 * detections[i].pattern_size
        /\ Len(messages) < 20 => PatternAt = {}

\* the shortest batch with a pattern finding
C9_Witness == pc = "analyzed" /\ Len(messages) = 20 /\ PatternAt # {}

\* no two messages have the same content after whitespace normalization
VariedContent ==
    Cardinality({Normalized(messages[i][2]) : i \in 1..Len(messages)}) = Len(messages)

\* C10: on a batch of varied content analyze returns no finding of
\* pattern_size >= 1: nothing below 100 messages, exactly one Warning volume
\* finding from 100 to 199, exactly one Critical volume finding from 200 on.
C10_NoFalsePositives ==
    (pc = "analyzed" /\ VariedContent) =>
        /\ ContentAt = {} /\ PatternAt = {}
        /\ Len(detections) = IF Len(messages) < 100 THEN 0 ELSE 1
        /\ \A i \in 1..Len(detections) :
            detections[i].severity = IF Len(messages) >= 200 THEN "Critical" ELSE "Warning"

C10_Witness ==
    /\ pc = "analyzed"
    /\ VariedContent
    /\ Len(messages) = 100
    /\ Len(detections) = 1
    /\ detections[1].severity = "Warning"

\* the batch is nothing but reps back-to-back copies of a cycle of two or more
\* messages
CycleRepeated ==
    /\ pc = "analyzed"
    /\ Len(cycle) >= 2
    /\ Len(messages) = reps * Len(cycle)
    /\ \A i \in 1..Len(messages) : messages[i] = cycle[((i - 1) % Len(cycle)) + 1]

\* C11: a batch that consists of r >= 10 back-to-back repetitions of a fixed
\* cycle of two or more messages yields at least one finding with
\* pattern_size > 1.
C11_RepeatedCycleFound ==
    (CycleRepeated /\ reps >= 10) => \E i \in 1..Len(detections) : detections[i].pattern_size > 1

\* ten repetitions of a two-message exchange: the shortest such batch
C11_Witness ==
    /\ CycleRepeated
    /\ reps = 10
    /\ Len(cycle) = 2
    /\ \E i \in 1..Len(detections) : detections[i].pattern_size > 1

---------------------------------------------------------------------------
(* Further properties of the filter                                        *)

\* C12: boilerplate is stripped before the noise tests: a content built from a
\* text T without wrapper delimiters by putting complete wrapper blocks into it
\* is filtered as T is; so wrappers around non-noise text give Some(trimmed
\* text without the wrappers), and wrappers around a bare pleasantry, or
\* wrappers alone, give None.
C12_WrappersStrippedFirst ==
    pc = "filtered" =>
        /\ filtered = filter(TextOf(parts))
        /\ filtered # None => filtered = Some(Trim(TextOf(parts)))
        /\ (\A i \in 1..Len(parts) : parts[i] \in WrapperBlocks) => filtered = None
        /\ IsStandalonePleasantry(Trim(TextOf(parts))) => filtered = None

\* a pleasantry cut in two by a reminder block is still a bare pleasantry
C12_Witness ==
    /\ pc = "filtered"
    /\ parts = <<PleaseHead, ReminderBlock, PleaseTail>>
    /\ filtered = None

\* C13: a phrase of the standalone pleasantry or acknowledgement lists, alone
\* in any letter case, with an optional single trailing '.' or '!' and
\* surrounding whitespace, is dropped (None); the same phrase followed by
\* further words that form no opener or closer is kept: Some of the trimmed
\* content, otherwise unchanged.
C13_WholeVersusPartial ==
    pc = "filtered" =>
        IF parts[6] = <<>> THEN filtered = None ELSE filtered = Some(Trim(content))

\* "Thank you!" alone is dropped
C13_Witness ==
    /\ pc = "filtered"
    /\ content = <<"T", "h", "a", "n", "k", " ", "y", "o", "u", "!">>
    /\ filtered = None

\* " DONE .\n fix done" is kept, trimmed
C13_KeptWitness ==
    /\ pc = "filtered"
    /\ parts = <<Space, ToUpper(Done), Space, Period, LineFeed, Flatten(<<Space, Fix, Space, Done>>)>>
    /\ filtered = Some(Drop(content, 1))

\* what is left of a content after the boilerplate is removed and the rest trimmed
Cleaned(c) == Trim(StripBoilerplate(c))

MatchesNoisePattern(s) ==
    \/ IsStandalonePleasantry(s) \/ IsEnthusiasm(s)
    \/ HasPolitePrefix(s) \/ HasPoliteSuffix(s)
    \/ IsAcknowledgment(s)

\* C14: minimum-content floor: filter returns None for every content whose
\* stripped-and-trimmed result is empty or has fewer than 3 characters, counted
\* in characters (so also for one or two multi-byte characters), and the floor
\* alone never rejects a result of 3 or more characters.
C14_MinimumContentFloor ==
    pc = "filtered" =>
        /\ Len(Cleaned(content)) < 3 => filtered = None
        /\ (Len(Cleaned(content)) >= 3 /\ ~MatchesNoisePattern(Cleaned(content)))
               => filtered = Some(Cleaned(content))

---------------------------------------------------------------------------
(* Further properties of the compressor                                    *)

\* the messages of the batch whose own content the filter keeps
KeptAt == {i \in 1..Len(messages) : filter(messages[i][2]) # None}

\* C15: compress_batch is a per-element filter-map with no cross-message
\* interaction: wherever the batch is cut in two, a ++ b, its result is
\* compress_batch(a) ++ compress_batch(b); and a message is kept iff filter of
\* its own content is Some, whatever its role, position and neighbours.
C15_CompressDistributes ==
    pc = "compressed" =>
        /\ \A k \in 0..Len(messages) :
            compressed = compress_batch(SubSeq(messages, 1, k))
                             \o compress_batch(SubSeq(messages, k + 1, Len(messages)))
        /\ Len(compressed) = Cardinality(KeptAt)
        /\ \A i \in KeptAt :
            compress_batch(<<messages[i]>>) = <<compressed[Cardinality({j \in KeptAt : j <= i})]>>

\* the same message twice in a row, kept both times, after a dropped one
C15_Witness ==
    /\ pc = "compressed"
    /\ Len(messages) = 3
    /\ filter(messages[1][2]) = None
    /\ messages[2] = messages[3]
    /\ Len(compressed) = 2

---------------------------------------------------------------------------
(* Further properties of the loop detector                                 *)

\* the different contents of the batch
Contents == {messages[i][2] : i \in 1..Len(messages)}

\* pairs relates each content's hash to its normalized text: the hashes and
\* the normalized texts correspond one to one
SameClasses(pairs) ==
    /\ Cardinality({p[1] : p \in pairs}) = Cardinality(pairs)
    /\ Cardinality({p[2] : p \in pairs}) = Cardinality(pairs)

\* norms holds <<i, normalized content of message i>>: the sizes of its classes
ClassSizes(norms) ==
    {Cardinality({p \in norms : p[2] = text}) : text \in {p[2] : p \in norms}}

ReportsLargestOf(sizes) ==
    \A i \in ContentAt :
        /\ detections[i].repetition_count \in sizes
        /\ \A n \in sizes : n <= detections[i].repetition_count

\* C16: in Pass B two messages count as the same content iff their contents
\* are equal after every run of whitespace is collapsed to one space and the
\* leading and trailing whitespace dropped, whatever their roles; the
\* repetition_count reported is the size of the largest such class, so the same
\* text spoken by different roles or spaced differently is counted together.
C16_ContentClasses ==
    pc = "analyzed" =>
        /\ SameClasses({<<hash_content(c), Normalized(c)>> : c \in Contents})
        /\ ContentAt # {} =>
            ReportsLargestOf(ClassSizes({<<i, Normalized(messages[i][2])>> : i \in 1..Len(messages)}))

\* ten rounds of one text said by two roles in two spacings: a class of 30
C16_Witness ==
    /\ pc = "analyzed"
    /\ reps = 10
    /\ cycle = << <<RoleUser, ContentAB>>, <<RoleAssistant, ContentAB>>, <<RoleUser, ContentAWideB>> >>
    /\ Len(messages) = 30
    /\ \E i \in ContentAt : detections[i].repetition_count = 30

\* each window of k consecutive messages with the key it is counted under
WindowPairs(hashes, k) ==
    {<<hashes[i], SubSeq(messages, i, i + k - 1)>> : i \in DOMAIN hashes}

\* two windows that differ at one position only, and there in the role only
DifferOnlyInRole(v, w) ==
    /\ Cardinality({j \in 1..Len(v) : v[j] # w[j]}) = 1
    /\ \A j \in 1..Len(v) : v[j][2] = w[j][2]

\* two windows that differ at one position only, and there only in the
\* whitespace inside the content
DifferOnlyInSpacing(v, w) ==
    /\ Cardinality({j \in 1..Len(v) : v[j] # w[j]}) = 1
    /\ \A j \in 1..Len(v) :
        v[j][1] = w[j][1] /\ Normalized(v[j][2]) = Normalized(w[j][2])

\* C17: in Pass C two windows count as the same pattern iff they agree position
\* by position on both role and exact content, with no whitespace
\* normalization: windows that differ only in the role at one position, or only
\* in whitespace inside one content, are counted as different patterns.
C17_WindowIdentity ==
    pc = "analyzed" =>
        \A k \in AdmissibleSizes(Len(messages)) :
            SameClasses(WindowPairs(WindowHashes(messages, k), k))

\* ten rounds in which one answer follows the same prompt from two roles: the
\* two windows are counted apart, and the pattern is found
C17_Witness ==
    /\ pc = "analyzed"
    /\ reps = 10
    /\ PatternAt # {}
    /\ \E p, q \in WindowPairs(WindowHashes(messages, 2), 2) :
        DifferOnlyInRole(p[2], q[2]) /\ p[1] # q[1]

\* the same with one prompt in two spacings
C17_SpacingWitness ==
    /\ pc = "analyzed"
    /\ reps = 10
    /\ PatternAt # {}
    /\ \E p, q \in WindowPairs(WindowHashes(messages, 2), 2) :
        DifferOnlyInSpacing(p[2], q[2]) /\ p[1] # q[1]

\* C18: analyze returns, and returns no finding, for every batch of fewer than
\* 10 messages, the empty batch and a single message included, whatever the
\* roles and contents; and no pass emits below its own minimum size: 100
\* messages for the volume pass, 10 for identical content, 20 for patterns.
C18_NothingBelowMinimum ==
    pc = "analyzed" =>
        /\ Len(messages) < 10 => detections = <<>>
        /\ Len(messages) < 100 => VolumeAt = {}
        /\ Len(messages) < 10 => ContentAt = {}
        /\ Len(messages) < 20 => PatternAt = {}

\* nine times the same message, and nothing is reported
C18_Witness ==
    /\ pc = "analyzed"
    /\ Len(messages) = 9
    /\ \A i \in 1..9 : messages[i] = messages[1]
    /\ detections = <<>>

\* the empty batch is analyzed as well
C18_EmptyWitness == pc = "analyzed" /\ messages = <<>> /\ detections = <<>>

\* C19: all three passes run on every call: analyze returns at most three
\* findings, at most one of each kind (pattern_size 0, 1, >= 2), in the order
\* volume, identical content, pattern; and each pass emits by its own
\* criterion alone, whatever the other passes found.
C19_ThreeIndependentPasses ==
    pc = "analyzed" =>
        /\ Len(detections) <= 3
        /\ Cardinality(VolumeAt) <= 1 /\ Cardinality(ContentAt) <= 1 /\ Cardinality(PatternAt) <= 1
        /\ \A i \in VolumeAt : \A j \in ContentAt \cup PatternAt : i < j
        /\ \A i \in ContentAt : \A j \in PatternAt : i < j
        /\ VolumeAt # {} <=> Len(messages) >= 100
        /\ ContentAt # {} <=> LargestContentClass >= 10
        /\ PatternAt # {} <=> \E k \in AdmissibleSizes(Len(messages)) : Occurrences(k) >= 10

\* a runaway session on which all three passes report
C19_Witness ==
    /\ pc = "analyzed"
    /\ Len(detections) = 3
    /\ detections[1].pattern_size = 0
    /\ detections[2].pattern_size = 1
    /\ detections[3].pattern_size >= 2

---------------------------------------------------------------------------
(* Properties of the session files                                         *)

\* C20: within one session's messages.jsonl the message index increases from
\* line to line, 1, 2, ..., n with no repeat, after any sequence of imports of
\* that session.
C20_IndexIncreases ==
    \A d \in Dates :
        \A i \in 1..Len(messages_jsonl[d]) : messages_jsonl[d][i].id = i

\* one run of continuum import, whichever the assistant
ImportRuns == ImportCodex \/ ImportGoose \/ ImportClaudeCode

\* the date directory an import of the session writes to
ImportDate == IF assistant = "claude-code" THEN SessionDate ELSE today

\* C21: every import path runs the loop detector on the raw, uncompressed
\* message list of the session it imports, whatever the compressor leaves
\* (also when it leaves nothing to persist), and persists the compressed list.
C21_EveryImportAnalyzes ==
    [][ImportRuns =>
        /\ detections' = analyze(messages)
        /\ messages_jsonl' = AppendAll(messages_jsonl, ImportDate, compress_batch(messages), 0)]_vars

\* a Codex session is imported, by continuum import or by continuum-codex
CodexImports ==
    \/ ImportCodex
    \/ CodexExits /\ ~skip_saving /\ NewSession /\ latest_session = ThisSession

\* the lines from position n + 1 on are the batch, indexed from 1, and carry
\* nothing but index, role, content and timestamp
AppendedExactly(old, new, batch) ==
    /\ Len(new) = Len(old) + Len(batch)
    /\ \A i \in 1..Len(old) : new[i] = old[i]
    /\ \A k \in 1..Len(batch) :
        /\ DOMAIN new[Len(old) + k] = {"id", "role", "content", "timestamp"}
        /\ new[Len(old) + k].id = k
        /\ new[Len(old) + k].role = batch[k][1]
        /\ new[Len(old) + k].content = batch[k][2]

\* session.json holds the session's metadata, the count among them, and no finding
SessionRecorded(file, count) ==
    /\ file # None
    /\ DOMAIN file[1] = {"assistant", "start_time", "end_time", "status", "message_count"}
    /\ file[1].message_count = count

C22_ImportWitness ==
    /\ pc = "idle"
    /\ assistant = "codex"
    /\ \E i \in 1..Len(detections) : detections[i].severity = "Critical"
    /\ Len(compressed) = 1
    /\ Len(messages_jsonl[today]) >= 1
    /\ messages_jsonl[today][Len(messages_jsonl[today])].content = compressed[1][2]
    /\ session_json[today] # None

---------------------------------------------------------------------------
(* Properties of the token estimates                                       *)

\* the least q with 4 * q >= n
Ceil4(n) == CHOOSE q \in 0..n : 4 * q >= n /\ (q = 0 \/ 4 * (q - 1) < n)

\* len of the filtered text, an absent one counting as empty
FilteredLen == IF filtered = None THEN 0 ELSE ByteLen(filtered[1])

\* C23: token_savings(original, filtered) is
\* max(0, ceil(len(original)/4) - ceil(len(filtered)/4)), an absent filtered
\* text counting as length 0; it is never negative, also when the filtered
\* text is longer than the original.
C23_TokenSavings ==
    pc = "saved" =>
        /\ savings >= 0
        /\ Ceil4(ByteLen(content)) >= Ceil4(FilteredLen)
               => savings = Ceil4(ByteLen(content)) - Ceil4(FilteredLen)
        /\ Ceil4(ByteLen(content)) < Ceil4(FilteredLen) => savings = 0

\* a filtered text that is a token longer than the original
C23_Witness ==
    /\ pc = "saved"
    /\ filtered # None
    /\ Ceil4(FilteredLen) > Ceil4(ByteLen(content))
    /\ ByteLen(content) > 0
    /\ savings = 0

\* a text filtered away whole: all its tokens are saved
C23_AbsentWitness ==
    /\ pc = "saved"
    /\ filtered = None
    /\ ByteLen(content) = 5
    /\ savings = 2

\* C24: compression_ratio(original, compressed) is 0 whenever original = 0,
\* whatever the compressed value (nothing is divided by zero), and otherwise
\* stands for (1 - compressed / original) * 100; (0, 0) gives 0, (100, 50)
\* gives 50 and (100, 25) gives 75, each exactly.
C24_CompressionRatio ==
    pc = "measured" =>
        /\ ratio.den > 0
        /\ original_tokens = 0 => ratio.num = 0 /\ ~ratio.rounded
        /\ original_tokens # 0 =>
               ratio.num * original_tokens
                   = 100 * (original_tokens - compressed_tokens) * ratio.den
        /\ (original_tokens = 100 /\ compressed_tokens = 50)
               => ratio = [num |-> 50, den |-> 1, rounded |-> FALSE]
        /\ (original_tokens = 100 /\ compressed_tokens = 25)
               => ratio = [num |-> 75, den |-> 1, rounded |-> FALSE]

\* nothing to compress, yet something is left: the ratio is 0
C24_Witness ==
    /\ pc = "measured"
    /\ original_tokens = 0
    /\ compressed_tokens = 7
    /\ ratio = [num |-> 0, den |-> 1, rounded |-> FALSE]

\* a third is left: two thirds of a hundred, which no double holds exactly
C24_ThirdsWitness ==
    /\ pc = "measured"
    /\ original_tokens = 3
    /\ compressed_tokens = 1
    /\ ratio = [num |-> 200, den |-> 3, rounded |-> TRUE]

\* the tokens of the contents of a batch, message by message
ContentTokens(msgs) == [i \in 1..Len(msgs) |-> Ceil4(ByteLen(msgs[i][2]))]

RECURSIVE SumSeq(_)
SumSeq(ns) == IF ns = <<>> THEN 0 ELSE Head(ns) + SumSeq(Tail(ns))

\* C28: compression never increases the estimated volume: estimate_tokens is
\* the sum over the messages of 5 + ceil(len(content)/4); each kept content is
\* no longer than its original; the estimate of compress_batch(m) is at most
\* that of m; and the compression ratio of the two lies between 0 and 100.
C28_NeverMoreTokens ==
    pc = "estimated" =>
        /\ original_tokens = 5 * Len(messages) + SumSeq(ContentTokens(messages))
        /\ compressed_tokens = 5 * Len(compressed) + SumSeq(ContentTokens(compressed))
        /\ \A i \in KeptAt : ByteLen(filter(messages[i][2])[1]) <= ByteLen(messages[i][2])
        /\ compressed_tokens <= original_tokens
        /\ ratio.den > 0
        /\ 0 <= ratio.num /\ ratio.num <= 100 * ratio.den

\* a batch of three of which one message is dropped and another shortened
C28_Witness ==
    /\ pc = "estimated"
    /\ Len(messages) = 3
    /\ Len(compressed) = 2
    /\ \E i \in KeptAt : ByteLen(filter(messages[i][2])[1]) < ByteLen(messages[i][2])
    /\ 0 < compressed_tokens /\ compressed_tokens < original_tokens
    /\ 0 < ratio.num /\ ratio.num < 100 * ratio.den

\* a batch of noise only: nothing is left and the ratio is 100
C28_AllNoiseWitness ==
    /\ pc = "estimated"
    /\ Len(messages) = 2
    /\ compressed = <<>>
    /\ ratio = [num |-> 100, den |-> 1, rounded |-> FALSE]

---------------------------------------------------------------------------
(* Properties of shared instances                                          *)

\* the same call made alone
Alone(call) ==
    CASE call.op = "filter" -> filter(call.input)
      [] call.op = "compress_batch" -> compress_batch(call.input)
      [] call.op = "analyze" -> analyze(call.input)

\* C25: calls to filter, compress_batch and analyze on one shared instance,
\* interleaved in any order across threads, each return what the same call
\* returns alone: no step writes the instance, and what analyze returns is
\* fixed by its input list, whichever order its hash maps iterate in and
\* whatever was called before.
C25_SharedInstance ==
    /\ detector = [max_messages_warning |-> max_messages_warning,
                   max_messages_critical |-> max_messages_critical,
                   min_repetitions |-> min_repetitions,
                   max_pattern_size |-> max_pattern_size]
    /\ \A t \in DOMAIN calls : calls[t].at = "returned" => calls[t].result = Alone(calls[t])

\* two threads have analyzed different batches, in each of which two contents
\* reach the threshold, and both have findings
C25_Witness ==
    /\ pc = "threads"
    /\ \A t \in Threads : calls[t].op = "analyze" /\ calls[t].at = "returned"
    /\ calls[1].input # calls[2].input
    /\ \A t \in Threads :
        /\ calls[t].result # <<>>
        /\ Cardinality({calls[t].input[i][2] : i \in 1..Len(calls[t].input)}) = 2
    /\ \E i \in 1..Len(calls[1].result) : calls[1].result[i].repetition_count = 12

---------------------------------------------------------------------------
(* Further properties of the loop detector                                 *)

\* C26: every pattern finding returned by analyze has pattern_size 2:
\* whenever a window of k > 2 consecutive messages occurs at least 10 times at
\* an admissible size k, size 2 is admissible as well and its most frequent
\* window occurs at least as often; size 2 is scanned first, so nothing makes
\* analyze report pattern_size 3 or more.
C26_PatternSizeTwo ==
    pc = "analyzed" =>
        /\ \A i \in PatternAt : detections[i].pattern_size = 2
        /\ \A k \in AdmissibleSizes(Len(messages)) :
            Occurrences(k) >= 10 =>
                /\ 2 \in AdmissibleSizes(Len(messages))
                /\ Occurrences(2) >= Occurrences(k)

\* a cycle of three messages, its windows of three occurring ten times and
\* more, reported as a pattern of two
C26_Witness ==
    /\ CycleRepeated
    /\ Len(cycle) = 3
    /\ 3 \in AdmissibleSizes(Len(messages))
    /\ Occurrences(3) >= 10
    /\ \E i \in PatternAt :
        detections[i].pattern_size = 2 /\ detections[i].repetition_count >= Occurrences(3)

\* Critical is the higher of the two severities
AtLeastAsSevere(a, b) == b = "Critical" => a = "Critical"

\* C27: a pattern finding never occurs alone: whenever analyze returns a
\* finding with pattern_size >= 2 and repetition_count c, the same result also
\* holds an identical-content finding (pattern_size 1) whose repetition_count
\* is at least c and whose severity is at least as high.
C27_PatternNeverAlone ==
    pc = "analyzed" =>
        \A i \in PatternAt :
            \E j \in ContentAt :
                /\ detections[j].repetition_count >= detections[i].repetition_count
                /\ AtLeastAsSevere(detections[j].severity, detections[i].severity)

\* a pattern of two reported as a Warning next to a Critical content finding
\* with a higher count
C27_Witness ==
    /\ pc = "analyzed"
    /\ \E i \in PatternAt :
        \E j \in ContentAt :
            /\ detections[i].severity = "Warning"
            /\ detections[j].severity = "Critical"
            /\ detections[j].repetition_count > detections[i].repetition_count

---------------------------------------------------------------------------
(* Properties of the wrappers                                              *)

\* one line has been added to one messages.jsonl, and it carries that index
AppendedOne(index) ==
    \E d \in Dates :
        /\ Len(messages_jsonl'[d]) = Len(messages_jsonl[d]) + 1
        /\ SubSeq(messages_jsonl'[d], 1, Len(messages_jsonl[d])) = messages_jsonl[d]
        /\ messages_jsonl'[d][Len(messages_jsonl'[d])].id = index
        /\ \A e \in Dates \ {d} : messages_jsonl'[e] = messages_jsonl[e]

\* C29: in the Claude print-mode wrapper with saving enabled, the run starts
\* counting at 0 and every message it appends carries the next index (so the
\* k-th carries k, with no gap and no repeat); an event whose text is noise
\* appends nothing and consumes no index; and each Result event sets the
\* session's message_count to the number appended so far and its status to
\* closed.
C29_PrintModeIndexes ==
    [][/\ PrintStarts => message_count' = 0
       /\ (pc = "logging" /\ ~skip_saving) =>
            /\ (SystemEvent \/ UserEvent \/ AssistantEvent) =>
                  \/ UNCHANGED <<messages_jsonl, message_count>>
                  \/ message_count' = message_count + 1 /\ AppendedOne(message_count + 1)
            /\ \A text \in EventTexts :
                  (filter(text) = None
                       /\ (LogMessage(RoleUser, text) \/ LogMessage(RoleAssistant, text)))
                      => UNCHANGED <<messages_jsonl, message_count>>
            /\ ResultEvent =>
                  /\ session_json'[LogDate] # None
                  /\ session_json'[LogDate][1].message_count = message_count
                  /\ session_json'[LogDate][1].status = "closed"]_vars

\* a wrapper is running: the assistant under it, the print-mode loop, or the
\* question whether to keep what was saved
WrapperRuns == pc \in {"wrapped", "logging", "review"}

\* the interactive wrapper ends its run on a new session of which the
\* compressor leaves something
ExitsOnNewSession ==
    /\ CodexExits \/ GooseExits \/ ClaudeExits
    /\ NewSession
    /\ latest_session = ThisSession
    /\ compress_batch(messages) # <<>>

\* C30: the no-save marker suppresses exactly one run: a wrapper that finds
\* ~/.continuum-nosave at its start removes it and, whatever events or
\* sessions it then sees, writes no session.json and appends no message; a
\* run that starts without the marker saves as usual: the print-mode wrapper
\* writes session.json at the System event, the interactive wrappers import
\* the new session when the assistant exits.
C30_MarkerSuppressesOneRun ==
    [][/\ (WrapperStarts \/ PrintStarts) => (~marker' /\ skip_saving' = marker)
       /\ (WrapperRuns /\ skip_saving) =>
              (UNCHANGED <<session_json, messages_jsonl>> /\ (pc' \in {"wrapped", "logging"} => skip_saving'))
       /\ (WrapperRuns /\ ~skip_saving) =>
              /\ ~skip_saving'
              /\ SystemEvent => session_json'[today] # None
              /\ ExitsOnNewSession =>
                    /\ session_json'[ImportDate] # None
                    /\ Len(messages_jsonl'[ImportDate])
                           = Len(messages_jsonl[ImportDate]) + Len(compress_batch(messages))]_vars

\* a run that found the marker has seen a new session with something to
\* save, and nothing is in the logs
C30_Witness ==
    /\ pc = "wrapped"
    /\ skip_saving
    /\ ~marker
    /\ NewSession
    /\ latest_session = ThisSession
    /\ compress_batch(messages) # <<>>
    /\ \A d \in Dates : session_json[d] = None /\ messages_jsonl[d] = <<>>

\* the print-mode wrapper found the marker, was given a prompt and has read
\* a System event, and nothing is in the logs
C30_PrintWitness ==
    /\ pc = "logging"
    /\ skip_saving
    /\ ~marker
    /\ user_prompt # None
    /\ filter(user_prompt[1]) # None
    /\ session_start_time # None
    /\ \A d \in Dates : session_json[d] = None /\ messages_jsonl[d] = <<>>
===========================================================================
